---- MODULE Spec2Model ----
(***************************************************************************)
(* Cabrillo -> ADIF converter: the band resolver (band_converter.py), the  *)
(* Cabrillo parser (cabrillo_parser.py) and the ADIF generator             *)
(* (adif_generator.py) as state machines.                                  *)
(*                                                                         *)
(* Text is kept as TLC strings (Len, \o, SubSeq and Tail work on them); a  *)
(* character is a one-character string.  Python ints are unbounded while   *)
(* TLC's are 32-bit and the band table reaches 10,500,000,000 Hz, so every *)
(* number that carries a frequency is kept as its decimal digit string.    *)
(***************************************************************************)
EXTENDS Integers, Sequences, FiniteSets, TLC

VARIABLES
    freq_arg,          \* BandConverter: argument of the frequency_to_band call
    band_hz,           \* BandConverter: freq_hz of that call
    band_result,       \* BandConverter: what the call returned ("" before it)
    pc,                \* position of the caller in the conversion
    file,              \* content of the file handed to parse_file
    qsos,              \* CabrilloParser.qsos
    contest_info,      \* CabrilloParser.contest_info
    gen_qsos,          \* argument qsos of the generate call
    gen_info,          \* argument contest_info of the generate call
    conversion_stats,  \* ADIFGenerator.conversion_stats
    adif_content,      \* text returned by generate
    adif_tags,         \* the <NAME:LEN>VALUE triples written into adif_content
    stats_id,          \* which dict object ADIFGenerator.conversion_stats is bound to
    snapshots,         \* the dicts get_conversion_stats returned: [id, val] each
    output_writes,     \* what convert_file wrote to the output path, in order
    validate_arg,      \* argument of the validate_adif call
    validation_result, \* what validate_adif returned (<<>> before the call)
    format_arg,        \* arguments of the format_adif_field call (<<>> before it)
    format_result,     \* what format_adif_field returned
    qsos_id,           \* which list object CabrilloParser.qsos is bound to
    returned,          \* the lists parse_file returned to its callers: [id, val] each
    address_id,        \* the list object under contest_info['address'] (0: no such key)
    info_held          \* the dicts get_contest_info returned: [val, address_id] each

vars == <<freq_arg, band_hz, band_result, pc, file, qsos, contest_info, gen_qsos,
          gen_info, conversion_stats, adif_content, adif_tags, stats_id, snapshots,
          output_writes, validate_arg, validation_result, format_arg, format_result,
          qsos_id, returned, address_id, info_held>>

band_vars == <<freq_arg, band_hz, band_result>>
check_vars == <<validate_arg, validation_result, format_arg, format_result>>
held_vars == <<qsos_id, returned, address_id, info_held>>
conv_vars == <<pc, file, qsos, contest_info, gen_qsos, gen_info,
               conversion_stats, adif_content, adif_tags, stats_id, snapshots,
               output_writes, qsos_id, returned, address_id, info_held>>

----------------------------------------------------------------------------
(* Characters and strings (Python str)                                     *)

\* s[i] (1-based), "" outside the string
Char(s, i) == IF i >= 1 /\ i <= Len(s) THEN SubSeq(s, i, i) ELSE ""

Digits == {"0", "1", "2", "3", "4", "5", "6", "7", "8", "9"}
DigitChars == "0123456789"
LowerChars == "abcdefghijklmnopqrstuvwxyz"
UpperChars == "ABCDEFGHIJKLMNOPQRSTUVWXYZ"
Lowers == {Char(LowerChars, i) : i \in 1..Len(LowerChars)}
Uppers == {Char(UpperChars, i) : i \in 1..Len(UpperChars)}

\* str.strip() / str.split() whitespace (the ASCII part of it)
Whitespace == {" ", "\t", "\n", "\r", "\f"}

\* Printable ASCII punctuation the inputs use
Punct == {":", "-", ".", "/", ",", ";", "<", ">", "_", "#", "@", "+", "=", "(", ")"}
Ascii == Digits \cup Lowers \cup Uppers \cup Whitespace \cup Punct

\* Non-ASCII letters of the inputs, lower case to upper case
AccentLower == "éü"
AccentUpper == "ÉÜ"

\* Bytes of a character in UTF-8: 1 for ASCII; the accented letters above
\* are U+00C9, U+00DC, U+00E9, U+00FC, 2 bytes each.
Utf8Bytes(c) == IF c \in Ascii THEN 1 ELSE 2

RECURSIVE Utf8Len(_)
Utf8Len(s) == IF s = "" THEN 0 ELSE Utf8Bytes(Char(s, 1)) + Utf8Len(Tail(s))

UpperChar(c) ==
    IF c \in Lowers
    THEN Char(UpperChars, CHOOSE i \in 1..Len(LowerChars) : Char(LowerChars, i) = c)
    ELSE IF \E i \in 1..Len(AccentLower) : Char(AccentLower, i) = c
    THEN Char(AccentUpper, CHOOSE i \in 1..Len(AccentLower) : Char(AccentLower, i) = c)
    ELSE c

\* str.upper()
RECURSIVE Upper(_)
Upper(s) == IF s = "" THEN "" ELSE UpperChar(Char(s, 1)) \o Upper(Tail(s))

\* str.isdigit(): non-empty and every character a digit
IsDigitStr(s) == s # "" /\ \A i \in 1..Len(s) : Char(s, i) \in Digits

RECURSIVE LStrip(_)
LStrip(s) == IF s # "" /\ Char(s, 1) \in Whitespace THEN LStrip(Tail(s)) ELSE s

RECURSIVE RStrip(_)
RStrip(s) ==
    IF s # "" /\ Char(s, Len(s)) \in Whitespace
    THEN RStrip(SubSeq(s, 1, Len(s) - 1)) ELSE s

\* str.strip()
Strip(s) == RStrip(LStrip(s))

\* str.startswith(p)
StartsWith(s, p) == Len(s) >= Len(p) /\ SubSeq(s, 1, Len(p)) = p

\* p in s
Contains(s, p) == \E i \in 1..(Len(s) - Len(p) + 1) : SubSeq(s, i, i + Len(p) - 1) = p

\* the start positions of p in s
Occurrences(s, p) == {i \in 1..(Len(s) - Len(p) + 1) : SubSeq(s, i, i + Len(p) - 1) = p}

\* ''.join(c for c in s if c in keep)
RECURSIVE KeepChars(_, _)
KeepChars(s, keep) ==
    IF s = "" THEN ""
    ELSE (IF Char(s, 1) \in keep THEN Char(s, 1) ELSE "") \o KeepChars(Tail(s), keep)

\* str.replace(c, '') for a single character c
RECURSIVE RemoveChar(_, _)
RemoveChar(s, c) ==
    IF s = "" THEN ""
    ELSE (IF Char(s, 1) = c THEN "" ELSE Char(s, 1)) \o RemoveChar(Tail(s), c)

\* position of the first character of s that is in seps, 0 when there is none
FirstSep(s, seps) ==
    IF \E i \in 1..Len(s) : Char(s, i) \in seps
    THEN CHOOSE i \in 1..Len(s) :
            Char(s, i) \in seps /\ \A j \in 1..(i - 1) : Char(s, j) \notin seps
    ELSE 0

\* s with its leading characters that are in seps removed
RECURSIVE DropSeps(_, _)
DropSeps(s, seps) ==
    IF s # "" /\ Char(s, 1) \in seps THEN DropSeps(Tail(s), seps) ELSE s

\* re.split('[seps]+', s): the pieces between maximal runs of separators;
\* a leading or trailing run yields an empty first or last piece.
RECURSIVE ReSplitRuns(_, _)
ReSplitRuns(s, seps) ==
    LET i == FirstSep(s, seps) IN
    IF i = 0 THEN <<s>>
    ELSE <<SubSeq(s, 1, i - 1)>> \o ReSplitRuns(DropSeps(SubSeq(s, i, Len(s)), seps), seps)

\* str.split(c) for a single character c: every occurrence separates
RECURSIVE SplitChar(_, _)
SplitChar(s, c) ==
    LET i == FirstSep(s, {c}) IN
    IF i = 0 THEN <<s>>
    ELSE <<SubSeq(s, 1, i - 1)>> \o SplitChar(SubSeq(s, i + 1, Len(s)), c)

\* [x for x in seq if x]
RECURSIVE NonEmpty(_)
NonEmpty(seq) ==
    IF seq = <<>> THEN <<>>
    ELSE (IF Head(seq) = "" THEN <<>> ELSE <<Head(seq)>>) \o NonEmpty(Tail(seq))

\* str.split(): split on runs of whitespace, no empty pieces
SplitWs(s) == NonEmpty(ReSplitRuns(s, Whitespace))

\* sep.join(seq)
RECURSIVE Join(_, _)
Join(seq, sep) ==
    IF seq = <<>> THEN ""
    ELSE IF Len(seq) = 1 THEN seq[1]
    ELSE seq[1] \o sep \o Join(Tail(seq), sep)

----------------------------------------------------------------------------
(* Naturals as decimal digit strings, and Python floats                    *)

DigitVal(c) == CHOOSE d \in 0..9 : Char(DigitChars, d + 1) = c
DigitStr(d) == Char(DigitChars, d + 1)

\* str(n) for a natural number n that fits TLC's integers
RECURSIVE IntStr(_)
IntStr(n) == IF n < 10 THEN DigitStr(n) ELSE IntStr(n \div 10) \o DigitStr(n % 10)

\* int(s) for a short digit string
RECURSIVE StrInt(_)
StrInt(s) ==
    IF s = "" THEN 0
    ELSE 10 * StrInt(SubSeq(s, 1, Len(s) - 1)) + DigitVal(Char(s, Len(s)))

\* str.zfill(n) of a string without sign
RECURSIVE ZFill(_, _)
ZFill(s, n) == IF Len(s) >= n THEN s ELSE ZFill("0" \o s, n)

RECURSIVE StripZeros(_)
StripZeros(d) == IF d # "" /\ Char(d, 1) = "0" THEN StripZeros(Tail(d)) ELSE d

RECURSIVE RStripZeros(_)
RStripZeros(d) ==
    IF d # "" /\ Char(d, Len(d)) = "0" THEN RStripZeros(SubSeq(d, 1, Len(d) - 1)) ELSE d

\* the canonical digit string of a natural: no leading zeros, "0" for zero
Nat10(d) == IF StripZeros(d) = "" THEN "0" ELSE StripZeros(d)

\* a < b for canonical digit strings
NatLess(a, b) ==
    \/ Len(a) < Len(b)
    \/ /\ Len(a) = Len(b)
       /\ \E i \in 1..Len(a) :
            /\ SubSeq(a, 1, i - 1) = SubSeq(b, 1, i - 1)
            /\ DigitVal(Char(a, i)) < DigitVal(Char(b, i))

NatLeq(a, b) == a = b \/ NatLess(a, b)

\* a + 1 and a - 1 on canonical digit strings (a - 1 for a > 0)
RECURSIVE NatSucc(_)
NatSucc(a) ==
    IF a = "" THEN "1"
    ELSE IF Char(a, Len(a)) = "9" THEN NatSucc(SubSeq(a, 1, Len(a) - 1)) \o "0"
    ELSE SubSeq(a, 1, Len(a) - 1) \o DigitStr(DigitVal(Char(a, Len(a))) + 1)

RECURSIVE NatPredRaw(_)
NatPredRaw(a) ==
    IF Char(a, Len(a)) = "0" THEN NatPredRaw(SubSeq(a, 1, Len(a) - 1)) \o "9"
    ELSE SubSeq(a, 1, Len(a) - 1) \o DigitStr(DigitVal(Char(a, Len(a))) - 1)

NatPred(a) == Nat10(NatPredRaw(a))

\* float(s) for s = sign body, once the body is cut at its first '.'
FloatOfParts(neg, ipart, fpart) ==
    IF /\ ipart \o fpart # ""
       /\ \A i \in 1..Len(ipart) : Char(ipart, i) \in Digits
       /\ \A i \in 1..Len(fpart) : Char(fpart, i) \in Digits
    THEN [ok |-> TRUE, neg |-> neg, ip |-> StripZeros(ipart), fp |-> RStripZeros(fpart)]
    ELSE [ok |-> FALSE, neg |-> FALSE, ip |-> "", fp |-> ""]

FloatOfBody(neg, body, dot) ==
    IF dot = 0 THEN FloatOfParts(neg, body, "")
    ELSE FloatOfParts(neg, SubSeq(body, 1, dot - 1), SubSeq(body, dot + 1, Len(body)))

FloatUnsigned(neg, body) == FloatOfBody(neg, body, FirstSep(body, {"."}))

\* float(s).  The modelled grammar is the plain decimal one,
\*   [+-] digits [. [digits]]  |  [+-] . digits ,
\* anything else is a ValueError (ok = FALSE); exponents, inf/nan and
\* underscores are outside the inputs drawn.  The value is kept exactly:
\* ip the integer digits without leading zeros, fp the fraction digits
\* without trailing zeros.  A double agrees with that on the inputs drawn
\* (integers, and fractions whose scaled product truncates alike).
float(s) ==
    IF Char(s, 1) \in {"+", "-"}
    THEN FloatUnsigned(Char(s, 1) = "-", Tail(s))
    ELSE FloatUnsigned(FALSE, s)

\* x < 10^k and x > 10^k for a float x (k >= 1)
FloatBelowPow10(x, k) == x.neg \/ Len(x.ip) <= k
FloatAbovePow10(x, k) ==
    /\ ~x.neg
    /\ \/ Len(x.ip) > k + 1
       \/ Len(x.ip) = k + 1 /\ (x.ip # "1" \o ZFill("", k) \/ x.fp # "")

\* int(x * 10^k) for a float x >= 0: the digits with the point moved k
\* places to the right, the rest cut off
FloatScaleInt(x, k) == Nat10(x.ip \o SubSeq(x.fp \o ZFill("", k), 1, k))

----------------------------------------------------------------------------
(* band_converter.py                                                       *)

Band(lo, hi, label) == [min |-> lo, max |-> hi, band |-> label]

\* BandConverter.bands, in insertion order
bands == <<
    Band("135700", "137800", "2200M"),
    Band("472000", "479000", "630M"),
    Band("1800000", "2000000", "160M"),
    Band("3500000", "4000000", "80M"),
    Band("5330500", "5406500", "60M"),
    Band("7000000", "7300000", "40M"),
    Band("10100000", "10150000", "30M"),
    Band("14000000", "14350000", "20M"),
    Band("18068000", "18168000", "17M"),
    Band("21000000", "21450000", "15M"),
    Band("24890000", "24990000", "12M"),
    Band("28000000", "29700000", "10M"),
    Band("50000000", "54000000", "6M"),
    Band("70000000", "70500000", "4M"),
    Band("144000000", "148000000", "2M"),
    Band("222000000", "225000000", "1.25M"),
    Band("430000000", "440000000", "70CM"),
    Band("902000000", "928000000", "33CM"),
    Band("1240000000", "1300000000", "23CM"),
    Band("2300000000", "2450000000", "13CM"),
    Band("3300000000", "3500000000", "9CM"),
    Band("5650000000", "5925000000", "6CM"),
    Band("10000000000", "10500000000", "3CM") >>

\* the unit inference with its thresholds one decimal place too high
UnitInferenceShifted(freq_num) ==
    IF ~freq_num.ok THEN "None"
    ELSE IF FloatBelowPow10(freq_num, 4) THEN FloatScaleInt(freq_num, 6)
    ELSE IF FloatBelowPow10(freq_num, 7) THEN FloatScaleInt(freq_num, 3)
    ELSE FloatScaleInt(freq_num, 0)

\* _normalize_frequency from "freq_num = float(freq_clean)" on: the Hz
\* value by the size of freq_num, "None" when float raised ValueError
UnitInference(freq_num) ==
    IF ~freq_num.ok THEN "None"
    ELSE IF FloatBelowPow10(freq_num, 3) THEN FloatScaleInt(freq_num, 6)
    ELSE IF FloatBelowPow10(freq_num, 6) THEN FloatScaleInt(freq_num, 3)
    ELSE FloatScaleInt(freq_num, 0)

NormalizeClean(freq_clean) ==
    IF freq_clean = "" THEN "None" ELSE UnitInference(float(freq_clean))

\* BandConverter._normalize_frequency: the Hz value, "None" on failure
_normalize_frequency(freq_str) == NormalizeClean(KeepChars(freq_str, Digits \cup {"."}))

\* the ranges of the table that hold freq_hz
BandHits(freq_hz) ==
    {i \in 1..Len(bands) : NatLeq(bands[i].min, freq_hz) /\ NatLeq(freq_hz, bands[i].max)}

FirstBand(hits) ==
    IF hits = {} THEN "UNKNOWN" ELSE bands[CHOOSE i \in hits : \A j \in hits : i <= j].band

\* the lookup with the upper end of every range excluded
LookupBandHalfOpen(freq_hz) ==
    IF freq_hz = "None" THEN "UNKNOWN"
    ELSE FirstBand({i \in 1..Len(bands) :
                      NatLeq(bands[i].min, freq_hz) /\ NatLess(freq_hz, bands[i].max)})

\* the lookup without "if freq_hz is None" and without the except clause:
\* comparing None with the range ends raises
LookupBandRaising(freq_hz) ==
    IF freq_hz = "None" THEN "TypeError" ELSE FirstBand(BandHits(freq_hz))

\* frequency_to_band from "if freq_hz is None" on: the first range that
\* holds the Hz value
LookupBand(freq_hz) ==
    IF freq_hz = "None" THEN "UNKNOWN" ELSE FirstBand(BandHits(freq_hz))

\* BandConverter.frequency_to_band
frequency_to_band(frequency_str) == LookupBand(_normalize_frequency(frequency_str))

----------------------------------------------------------------------------
(* datetime.strptime / strftime                                            *)

\* The lengths a directive can take at the start of s, in the order of the
\* alternatives of _strptime's regular expressions:
\*   %Y  \d\d\d\d      %m  1[0-2]|0[1-9]|[1-9]
\*   %d  3[0-1]|[1-2]\d|0[1-9]|[1-9]| [1-9]
DirectiveLens(item, s) ==
    LET c1 == Char(s, 1)
        c2 == Char(s, 2)
        NonZero == Digits \ {"0"}
    IN  IF item = "Y"
        THEN IF Len(s) >= 4 /\ IsDigitStr(SubSeq(s, 1, 4)) THEN <<4>> ELSE <<>>
        ELSE IF item = "m"
        THEN (IF c1 = "1" /\ c2 \in {"0", "1", "2"} THEN <<2>> ELSE <<>>)
             \o (IF c1 = "0" /\ c2 \in NonZero THEN <<2>> ELSE <<>>)
             \o (IF c1 \in NonZero THEN <<1>> ELSE <<>>)
        ELSE (IF c1 = "3" /\ c2 \in {"0", "1"} THEN <<2>> ELSE <<>>)
             \o (IF c1 \in {"1", "2"} /\ c2 \in Digits THEN <<2>> ELSE <<>>)
             \o (IF c1 = "0" /\ c2 \in NonZero THEN <<2>> ELSE <<>>)
             \o (IF c1 \in NonZero THEN <<1>> ELSE <<>>)
             \o (IF c1 = " " /\ c2 \in NonZero THEN <<2>> ELSE <<>>)

NoMatch == [ok |-> FALSE, rest |-> "", Y |-> 0, m |-> 0, d |-> 0]

\* The regular expression's match of format fmt (a sequence of the
\* directives "Y", "m", "d" and literal characters) at the start of s: the
\* first one in backtracking order.  got holds the fields read so far.
RECURSIVE RegexMatch(_, _, _)
RECURSIVE RegexTry(_, _, _, _)
RegexMatch(s, fmt, got) ==
    IF fmt = <<>> THEN [got EXCEPT !.ok = TRUE, !.rest = s]
    ELSE IF Head(fmt) \in {"Y", "m", "d"}
    THEN RegexTry(s, fmt, got, DirectiveLens(Head(fmt), s))
    ELSE IF StartsWith(s, Head(fmt))
    THEN RegexMatch(SubSeq(s, Len(Head(fmt)) + 1, Len(s)), Tail(fmt), got)
    ELSE NoMatch
RegexTry(s, fmt, got, lens) ==
    IF lens = <<>> THEN NoMatch
    ELSE LET n    == Head(lens)
             val  == StrInt(LStrip(SubSeq(s, 1, n)))
             here == [got EXCEPT ![Head(fmt)] = val]
             r    == RegexMatch(SubSeq(s, n + 1, Len(s)), Tail(fmt), here)
         IN  IF r.ok THEN r ELSE RegexTry(s, fmt, got, Tail(lens))

IsLeap(y) == (y % 4 = 0 /\ y % 100 # 0) \/ y % 400 = 0

DaysInMonth(y, m) ==
    IF m = 2 THEN (IF IsLeap(y) THEN 29 ELSE 28)
    ELSE IF m \in {4, 6, 9, 11} THEN 30 ELSE 31

NoDate == [ok |-> FALSE, Y |-> 0, m |-> 0, d |-> 0]

\* _strptime after the regular expression ran: ValueError (ok = FALSE) for no
\* match, for unconverted data, for year 0 and for a day the month has not
CheckMatch(r) ==
    IF r.ok /\ r.rest = "" /\ r.Y >= 1 /\ r.d <= DaysInMonth(r.Y, r.m)
    THEN [ok |-> TRUE, Y |-> r.Y, m |-> r.m, d |-> r.d]
    ELSE NoDate

\* datetime.strptime(date_string, fmt)
strptime(date_string, fmt) == CheckMatch(RegexMatch(date_string, fmt, NoMatch))

FmtIso     == <<"Y", "-", "m", "-", "d">>     \* '%Y-%m-%d'
FmtCompact == <<"Y", "m", "d">>               \* '%Y%m%d'
FmtUs      == <<"m", "/", "d", "/", "Y">>     \* '%m/%d/%Y'
FmtDotted  == <<"d", ".", "m", ".", "Y">>     \* '%d.%m.%Y'

\* date_obj.strftime('%Y%m%d'); glibc's %Y does not pad a year below 1000
strftime_Ymd(t) == IntStr(t.Y) \o ZFill(IntStr(t.m), 2) \o ZFill(IntStr(t.d), 2)

----------------------------------------------------------------------------
(* cabrillo_parser.py                                                      *)

\* CabrilloQSO.__init__
CabrilloQSO ==
    [frequency |-> "", mode |-> "", date |-> "", time |-> "", my_call |-> "",
     my_rst_sent |-> "", my_exchange_sent |-> "", dx_call |-> "",
     dx_rst_rcvd |-> "", dx_exchange_rcvd |-> "", transmitter_id |-> "",
     raw_line |-> ""]

\* CabrilloParser._validate_date
_validate_date(date_str) ==
    \E fmt \in {FmtIso, FmtCompact, FmtUs, FmtDotted} : strptime(date_str, fmt).ok

\* _validate_time without the ranges of hour and minute
ValidClockAnyDigits(time_clean) == Len(time_clean) = 4 /\ IsDigitStr(time_clean)

\* _validate_time once the ':' are removed
ValidClock(time_clean) ==
    /\ Len(time_clean) = 4
    /\ IsDigitStr(time_clean)
    /\ StrInt(SubSeq(time_clean, 1, 2)) \in 0..23
    /\ StrInt(SubSeq(time_clean, 3, 4)) \in 0..59

\* CabrilloParser._validate_time
_validate_time(time_str) == ValidClock(RemoveChar(time_str, ":"))

\* a field missing from the line takes the last token of the line
PartRepeatsLast(parts, i) == IF Len(parts) > i THEN parts[i + 1] ELSE parts[Len(parts)]

\* parts[i] if len(parts) > i else ""   (i counted from 0 as in the source)
Part(parts, i) == IF Len(parts) > i THEN parts[i + 1] ELSE ""

\* "Validate frequency", "Validate date format", "Validate time format": the
\* field, or "" when it is cleared
KeepFrequency(v) == IF v # "" /\ float(v).ok THEN v ELSE ""
KeepDate(v) == IF v # "" /\ _validate_date(v) THEN v ELSE ""
KeepTime(v) == IF v # "" /\ _validate_time(v) THEN v ELSE ""

\* the record _parse_qso_line fills from parts
QsoOfParts(line, parts) ==
    [frequency |-> KeepFrequency(Part(parts, 0)),
     mode |-> Part(parts, 1),
     date |-> KeepDate(Part(parts, 2)),
     time |-> KeepTime(Part(parts, 3)),
     my_call |-> Upper(Strip(Part(parts, 4))),
     my_rst_sent |-> Part(parts, 5),
     my_exchange_sent |-> Part(parts, 6),
     dx_call |-> Upper(Strip(Part(parts, 7))),
     dx_rst_rcvd |-> Part(parts, 8),
     dx_exchange_rcvd |-> Part(parts, 9),
     transmitter_id |-> Part(parts, 10),
     raw_line |-> line]

\* the line kept whatever its call signs
QsoFromPartsNoCallGate(line, parts) ==
    IF Len(parts) < 6 THEN <<>> ELSE <<QsoOfParts(line, parts)>>

\* the line kept when it has a token at the position before dx_call
QsoFromPartsCallAtSeven(line, parts) ==
    IF Len(parts) < 6 THEN <<>>
    ELSE IF Part(parts, 6) = "" THEN <<>>
    ELSE IF Part(parts, 4) = "" THEN <<>>
    ELSE <<QsoOfParts(line, parts)>>

\* _parse_qso_line from "if len(parts) < 10" on: <<qso>>, or <<>> where the
\* source returns None
QsoFromParts(line, parts) ==
    IF Len(parts) < 6 THEN <<>>
    ELSE IF Part(parts, 7) = "" THEN <<>>
    ELSE IF Part(parts, 4) = "" THEN <<>>
    ELSE <<QsoOfParts(line, parts)>>

\* "Remove 'QSO:' prefix and clean whitespace"
LineData(line) ==
    IF StartsWith(Upper(line), "QSO:") THEN Strip(SubSeq(line, 5, Len(line)))
    ELSE Strip(line)

\* CabrilloParser._parse_qso_line
_parse_qso_line(line) == QsoFromParts(line, SplitWs(LineData(line)))

\* _parse_header_line's table header_fields
header_fields ==
    ("CONTEST" :> "contest") @@ ("CALLSIGN" :> "callsign")
    @@ ("CATEGORY-OPERATOR" :> "category_operator")
    @@ ("CATEGORY-TRANSMITTER" :> "category_transmitter")
    @@ ("CATEGORY-POWER" :> "category_power")
    @@ ("CATEGORY-BAND" :> "category_band")
    @@ ("CATEGORY-MODE" :> "category_mode")
    @@ ("CLAIMED-SCORE" :> "claimed_score")
    @@ ("CLUB" :> "club") @@ ("LOCATION" :> "location") @@ ("NAME" :> "name")
    @@ ("EMAIL" :> "email") @@ ("OPERATORS" :> "operators")
    @@ ("CREATED-BY" :> "created_by")

\* d[k] = v on a dict d
DictSet(d, k, v) == [x \in DOMAIN d \cup {k} |-> IF x = k THEN v ELSE d[x]]

\* d.get(k, default)
DictGet(d, k, default) == IF k \in DOMAIN d THEN d[k] ELSE default

\* a recognized key stored only the first time it is met
StoreHeaderKeepsFirst(info, key, value) ==
    IF key \in DOMAIN header_fields
    THEN (IF header_fields[key] \in DOMAIN info THEN info ELSE DictSet(info, header_fields[key], value))
    ELSE IF key = "ADDRESS"
    THEN DictSet(info, "address", DictGet(info, "address", <<>>) \o <<value>>)
    ELSE info

\* _parse_header_line from "Store important contest information" on
StoreHeader(info, key, value) ==
    IF key \in DOMAIN header_fields THEN DictSet(info, header_fields[key], value)
    ELSE IF key = "ADDRESS"
    THEN DictSet(info, "address", DictGet(info, "address", <<>>) \o <<value>>)
    ELSE info

\* key, value = line.split(':', 1) with the ':' at position colon
SplitHeader(info, line, colon) ==
    IF colon = 0 THEN info
    ELSE StoreHeader(info, Upper(Strip(SubSeq(line, 1, colon - 1))),
                     Strip(SubSeq(line, colon + 1, Len(line))))

\* CabrilloParser._parse_header_line: the contest_info it leaves
_parse_header_line(info, line) == SplitHeader(info, line, FirstSep(line, {":"}))

\* one turn of the loop of parse_file, on the stripped line
ParseLine(st, line) ==
    IF line = "" \/ StartsWith(line, "#") THEN st
    ELSE IF StartsWith(Upper(line), "QSO:")
    THEN [st EXCEPT !.qsos = @ \o _parse_qso_line(line)]
    ELSE [st EXCEPT !.contest_info = _parse_header_line(@, line)]

\* the loop of parse_file ended by the first line that is neither blank, a
\* comment, a QSO line nor a 'KEY: value' header
RECURSIVE ParseLinesAbortOnMalformed(_, _)
ParseLinesAbortOnMalformed(lines, st) ==
    IF lines = <<>> THEN st
    ELSE IF Strip(Head(lines)) # "" /\ ~Contains(Head(lines), ":") /\ ~StartsWith(Strip(Head(lines)), "#")
    THEN st
    ELSE ParseLinesAbortOnMalformed(Tail(lines), ParseLine(st, Strip(Head(lines))))

\* the loop of parse_file over the lines, from the state st = [qsos, contest_info]
RECURSIVE ParseLines(_, _)
ParseLines(lines, st) ==
    IF lines = <<>> THEN st
    ELSE ParseLines(Tail(lines), ParseLine(st, Strip(Head(lines))))

\* CabrilloParser.parse_file on a file that exists and decodes to content:
\* raised = TRUE when it raises ("Could not read file with any encoding")
parse_file(content) ==
    IF content = ""
    THEN [raised |-> TRUE, qsos |-> <<>>, contest_info |-> <<>>]
    ELSE ParseLines(SplitChar(content, "\n"),
                    [raised |-> FALSE, qsos |-> <<>>, contest_info |-> <<>>])

\* the list object self.qsos is bound to by parse_file, had "self.qsos = []"
\* been "self.qsos.clear()"
SameList(id, fresh) == id

\* "self.qsos = []" at the start of parse_file: a new list object
NewList(id, fresh) == fresh

\* what the names held see once the list object id holds val
ListHolders(held, id, val) ==
    [j \in 1..Len(held) |-> IF held[j].id = id THEN [id |-> id, val |-> val] ELSE held[j]]

\* CabrilloParser.get_contest_info: self.contest_info.copy(), a new dict
\* whose 'address' key is bound to the list object of the parser's dict
get_contest_info(info, id) == [val |-> info, address_id |-> id]

\* CabrilloParser.get_qso_count
get_qso_count(qs) == Len(qs)

\* what the dicts held see once the address list object id holds list
AddressHolders(held, id, list) ==
    [j \in 1..Len(held) |->
        IF held[j].address_id = id
        THEN [held[j] EXCEPT !.val = DictSet(@, "address", list)] ELSE held[j]]

----------------------------------------------------------------------------
(* adif_generator.py                                                       *)

\* the mode table with PH kept as it is
ModeMappingsPhKept ==
    ("CW" :> "CW") @@ ("PH" :> "PH") @@ ("SSB" :> "SSB") @@ ("USB" :> "SSB")
    @@ ("LSB" :> "SSB") @@ ("AM" :> "AM") @@ ("FM" :> "FM")
    @@ ("RTTY" :> "RTTY") @@ ("PSK31" :> "PSK31") @@ ("PSK63" :> "PSK63")
    @@ ("MFSK" :> "MFSK") @@ ("JT65" :> "JT65") @@ ("JT9" :> "JT9")
    @@ ("FT8" :> "FT8") @@ ("FT4" :> "FT4") @@ ("MSK144" :> "MSK144")

\* ADIFGenerator.mode_mappings
mode_mappings ==
    ("CW" :> "CW") @@ ("PH" :> "SSB") @@ ("SSB" :> "SSB") @@ ("USB" :> "SSB")
    @@ ("LSB" :> "SSB") @@ ("AM" :> "AM") @@ ("FM" :> "FM")
    @@ ("RTTY" :> "RTTY") @@ ("PSK31" :> "PSK31") @@ ("PSK63" :> "PSK63")
    @@ ("MFSK" :> "MFSK") @@ ("JT65" :> "JT65") @@ ("JT9" :> "JT9")
    @@ ("FT8" :> "FT8") @@ ("FT4" :> "FT4") @@ ("MSK144" :> "MSK144")

\* ADIFGenerator._convert_mode
_convert_mode(cabrillo_mode) ==
    LET mode_upper == Upper(cabrillo_mode) IN
    IF mode_upper \in DOMAIN mode_mappings THEN mode_mappings[mode_upper] ELSE mode_upper

\* One f"<NAME:{n}>{value}" of the source: the name, the number written as
\* the length, and the value written after it
Tag(name, n, value) == [name |-> name, len |-> n, value |-> value]
TagText(t) == "<" \o t.name \o ":" \o IntStr(t.len) \o ">" \o t.value

\* f"<NAME:{len(val)}>{val}": len counts the characters of a Python str
LenTag(name, val) == Tag(name, Len(val), val)

RECURSIVE TagTexts(_)
TagTexts(tags) == IF tags = <<>> THEN <<>> ELSE <<TagText(Head(tags))>> \o TagTexts(Tail(tags))

RECURSIVE TagLines(_)
TagLines(tags) == IF tags = <<>> THEN "" ELSE TagText(Head(tags)) \o "\n" \o TagLines(Tail(tags))

\* datetime.utcnow().strftime(...) for a clock value now
Two(n) == ZFill(IntStr(n), 2)
strftime_banner(now) ==
    IntStr(now.Y) \o "-" \o Two(now.m) \o "-" \o Two(now.d) \o " "
    \o Two(now.H) \o ":" \o Two(now.M) \o ":" \o Two(now.S) \o " UTC"
strftime_stamp(now) ==
    IntStr(now.Y) \o Two(now.m) \o Two(now.d) \o " " \o Two(now.H) \o Two(now.M) \o Two(now.S)

\* if key in contest_info: header += f"<NAME:{len(val)}>{val}\n"
HeaderField(info, key, name) ==
    IF key \in DOMAIN info THEN <<LenTag(name, info[key])>> ELSE <<>>

\* [a for a in seq if a.strip()]
RECURSIVE NonBlank(_)
NonBlank(seq) ==
    IF seq = <<>> THEN <<>>
    ELSE (IF Strip(Head(seq)) = "" THEN <<>> ELSE <<Head(seq)>>) \o NonBlank(Tail(seq))

\* the loop that keeps every operator, repeated or not
UniqueKeepsAll(ops, seen) == ops

\* the unique_ops loop: first occurrences, in order
RECURSIVE Unique(_, _)
Unique(ops, seen) ==
    IF ops = <<>> THEN <<>>
    ELSE IF Head(ops) \in seen THEN Unique(Tail(ops), seen)
    ELSE <<Head(ops)>> \o Unique(Tail(ops), seen \cup {Head(ops)})

\* [o.strip().upper() for o in seq]
RECURSIVE UpperAll(_)
UpperAll(seq) == IF seq = <<>> THEN <<>> ELSE <<Upper(Strip(Head(seq)))>> \o UpperAll(Tail(seq))

\* split_ops: re.split(r'[\s,;]+', raw_ops), blanks dropped, upper-cased
SplitOps(raw_ops) == UpperAll(NonBlank(ReSplitRuns(raw_ops, Whitespace \cup {",", ";"})))

\* "if unique_ops:": OPERATOR for the first, OPERATORS when there are more
RosterTags(unique_ops) ==
    IF unique_ops = <<>> THEN <<>>
    ELSE <<LenTag("OPERATOR", unique_ops[1])>>
         \o (IF Len(unique_ops) > 1
             THEN <<LenTag("OPERATORS", Join(unique_ops, ","))>> ELSE <<>>)

\* "if raw_ops:"
RawOpsTags(raw_ops) ==
    IF raw_ops = "" THEN <<>> ELSE RosterTags(Unique(SplitOps(raw_ops), {}))

\* _generate_header, "Operators handling (primary + list)"
OperatorTags(info) ==
    IF "operators" \notin DOMAIN info THEN <<>>
    ELSE IF info["operators"] = "" THEN <<>>
    ELSE RawOpsTags(Strip(info["operators"]))

\* re.fullmatch(r'[A-Z]{2}', loc_up)
IsStateCode(loc_up) ==
    Len(loc_up) = 2 /\ Char(loc_up, 1) \in Uppers /\ Char(loc_up, 2) \in Uppers

LocationOf(loc_up) ==
    <<LenTag("APP_C2A_LOCATION", loc_up)>>
    \o (IF IsStateCode(loc_up) THEN <<LenTag("MY_STATE", loc_up)>> ELSE <<>>)

\* _generate_header, "Location handling + heuristic for MY_STATE"
LocationTags(info) ==
    IF "location" \notin DOMAIN info THEN <<>> ELSE LocationOf(Upper(info["location"]))

AddressOf(addr_join) == IF addr_join = "" THEN <<>> ELSE <<LenTag("ADDRESS", addr_join)>>

\* _generate_header, "Address (list -> single line)"
AddressTags(info) ==
    IF "address" \notin DOMAIN info THEN <<>>
    ELSE AddressOf(Join(NonBlank(info["address"]), ", "))

\* the tags _generate_header writes, in its order; now is the second
\* utcnow() of the call
HeaderTags(info, now) ==
    <<Tag("ADIF_VER", 5, "3.1.4"),
      Tag("PROGRAMID", 20, "Cabrillo2ADIF_v0.9"),
      Tag("CREATED_TIMESTAMP", 15, strftime_stamp(now))>>
    \o (IF DOMAIN info = {} THEN <<>>
        ELSE HeaderField(info, "contest", "CONTEST_ID")
             \o HeaderField(info, "callsign", "STATION_CALLSIGN")
             \o HeaderField(info, "category_operator", "CATEGORY_OPERATOR")
             \o HeaderField(info, "category_power", "CATEGORY_POWER")
             \o HeaderField(info, "category_transmitter", "CATEGORY_TRANSMITTER")
             \o HeaderField(info, "category_band", "CATEGORY_BAND")
             \o HeaderField(info, "category_mode", "CATEGORY_MODE")
             \o HeaderField(info, "claimed_score", "CLAIMED_SCORE")
             \o HeaderField(info, "name", "NAME")
             \o HeaderField(info, "email", "EMAIL")
             \o HeaderField(info, "club", "APP_C2A_CLUB")
             \o LocationTags(info)
             \o AddressTags(info)
             \o HeaderField(info, "created_by", "APP_C2A_CREATED_BY")
             \o OperatorTags(info))

\* the header text around its tags
HeaderOf(now1, tags) ==
    [text |-> "ADIF Export from Cabrillo2ADIF Converter v0.9\n"
              \o "Generated: " \o strftime_banner(now1) \o "\n"
              \o "User: ertig3\n"
              \o "\n"
              \o TagLines(tags)
              \o "\n",
     tags |-> tags]

\* ADIFGenerator._generate_header: the text returned and the tags in it;
\* now1 and now2 are its two utcnow() reads
_generate_header(info, now1, now2) == HeaderOf(now1, HeaderTags(info, now2))

\* f"{v:.6f}" for the value with the digits given, p of them before the
\* point and at least seven after it: six decimals, the seventh rounds
Fixed6Text(neg, rnd) ==
    (IF neg THEN "-" ELSE "")
    \o Nat10(SubSeq(rnd, 1, Len(rnd) - 6)) \o "." \o SubSeq(rnd, Len(rnd) - 5, Len(rnd))

Fixed6(neg, digits, p) ==
    IF DigitVal(Char(digits, p + 7)) >= 5
    THEN Fixed6Text(neg, ZFill(NatSucc(Nat10(SubSeq(digits, 1, p + 6))), p + 6))
    ELSE Fixed6Text(neg, SubSeq(digits, 1, p + 6))

\* the value with integer digits ipz (more than k of them), fraction digits
\* fp, divided by 10^k
Fixed6Scaled(neg, ipz, fp, k) == Fixed6(neg, ipz \o fp \o "0000000", Len(ipz) - k)

\* .rstrip('.')
RStripPoint(cut) ==
    IF Char(cut, Len(cut)) = "." THEN SubSeq(cut, 1, Len(cut) - 1) ELSE cut

\* f"{x / 10^k:.6f}".rstrip('0').rstrip('.') for a float x
FormatMHz(x, k) == RStripPoint(RStripZeros(Fixed6Scaled(x.neg, ZFill(x.ip, k + 1), x.fp, k)))

\* freq_str of a frequency that is never divided
FreqDisplayUndivided(freq) == FormatMHz(freq, 0)

\* freq_mhz by the size of freq, formatted: freq_str
FreqDisplay(freq) ==
    IF FloatAbovePow10(freq, 6) THEN FormatMHz(freq, 6)
    ELSE IF FloatAbovePow10(freq, 3) THEN FormatMHz(freq, 3)
    ELSE FormatMHz(freq, 0)

BandTags(band) == IF band # "UNKNOWN" THEN <<LenTag("BAND", band)>> ELSE <<>>

\* "if qso.frequency:" with float(qso.frequency) raising no ValueError
HasFrequency(frequency) == frequency # "" /\ float(frequency).ok

\* the frequency block of _generate_qso_adif: FREQ and BAND
FrequencyTags(frequency) ==
    IF HasFrequency(frequency)
    THEN <<LenTag("FREQ", FreqDisplay(float(frequency)))>>
         \o BandTags(frequency_to_band(frequency))
    ELSE <<>>

\* the date block, for a date strptime accepts
DateTags(date) ==
    IF date # "" THEN <<Tag("QSO_DATE", 8, strftime_Ymd(strptime(date, FmtIso)))>> ELSE <<>>

TimeOn(time_str) ==
    IF Len(time_str) = 4 /\ IsDigitStr(time_str) THEN <<Tag("TIME_ON", 4, time_str)>> ELSE <<>>

\* the time block with the padding left out
TimeTagsUnpadded(time) == IF time # "" THEN TimeOn(RemoveChar(time, ":")) ELSE <<>>

\* the time block
TimeTags(time) == IF time # "" THEN TimeOn(ZFill(RemoveChar(time, ":"), 4)) ELSE <<>>

\* the mode block
ModeTags(mode) == IF mode # "" THEN <<LenTag("MODE", _convert_mode(mode))>> ELSE <<>>

\* if value: adif_fields.append(f"<NAME:{len(value)}>{value}")
RecordField(value, name) == IF value # "" THEN <<LenTag(name, value)>> ELSE <<>>

\* the fields of the record with MODE appended before FREQ and BAND
RecordTagsModeFirst(qso) ==
    <<LenTag("CALL", Upper(qso.dx_call))>>
    \o DateTags(qso.date)
    \o TimeTags(qso.time)
    \o ModeTags(qso.mode)
    \o FrequencyTags(qso.frequency)
    \o RecordField(qso.my_rst_sent, "RST_SENT")
    \o RecordField(qso.dx_rst_rcvd, "RST_RCVD")
    \o RecordField(qso.my_exchange_sent, "STX_STRING")
    \o RecordField(qso.dx_exchange_rcvd, "SRX_STRING")
    \o RecordField(Upper(qso.my_call), "STATION_CALLSIGN")
    \o RecordField(qso.transmitter_id, "APP_C2A_TXID")

\* the fields of the record of qso, in the order _generate_qso_adif appends
\* them (for a record that is not skipped)
RecordTags(qso) ==
    <<LenTag("CALL", Upper(qso.dx_call))>>
    \o DateTags(qso.date)
    \o TimeTags(qso.time)
    \o FrequencyTags(qso.frequency)
    \o ModeTags(qso.mode)
    \o RecordField(qso.my_rst_sent, "RST_SENT")
    \o RecordField(qso.dx_rst_rcvd, "RST_RCVD")
    \o RecordField(qso.my_exchange_sent, "STX_STRING")
    \o RecordField(qso.dx_exchange_rcvd, "SRX_STRING")
    \o RecordField(Upper(qso.my_call), "STATION_CALLSIGN")
    \o RecordField(qso.transmitter_id, "APP_C2A_TXID")

Bump(stats, key) == [stats EXCEPT ![key] = @ + 1]

\* the counters with a record without mode left out of the mode counters
RecordStatsModeWhenSet(qso, stats) ==
    LET counted == Bump(stats, IF HasFrequency(qso.frequency)
                               THEN "qsos_with_frequency" ELSE "qsos_without_frequency")
    IN  IF qso.mode # "" THEN Bump(counted, "qsos_with_mode") ELSE counted

\* the counters _generate_qso_adif changes for a record that is not skipped
RecordStats(qso, stats) ==
    Bump(Bump(stats, IF HasFrequency(qso.frequency)
                     THEN "qsos_with_frequency" ELSE "qsos_without_frequency"),
         IF qso.mode # "" THEN "qsos_with_mode" ELSE "qsos_without_mode")

\* Whether _generate_qso_adif returns "" for qso: an object without the
\* CabrilloQSO attributes raises inside the try (caught at "except
\* Exception"), an empty dx_call, or a date strptime rejects
RecordSkipped(qso) ==
    \/ "dx_call" \notin DOMAIN qso
    \/ qso.dx_call = ""
    \/ qso.date # "" /\ ~strptime(qso.date, FmtIso).ok

\* " ".join(adif_fields) + " <EOR>"
RecordOf(tags, stats) ==
    [text |-> Join(TagTexts(tags), " ") \o " <EOR>", tags |-> tags, stats |-> stats]

\* ADIFGenerator._generate_qso_adif: the text returned, its tags, and the
\* conversion_stats it leaves
_generate_qso_adif(qso, stats) ==
    IF RecordSkipped(qso)
    THEN [text |-> "", tags |-> <<>>, stats |-> stats]
    ELSE RecordOf(RecordTags(qso), RecordStats(qso, stats))

\* if qso_adif: adif_content += qso_adif + "\n"
AppendRecord(acc, r) ==
    [content |-> IF r.text # "" THEN acc.content \o r.text \o "\n" ELSE acc.content,
     tags    |-> acc.tags \o r.tags,
     stats   |-> r.stats]

\* the loop of generate over qsos, from acc = [content, tags, stats]
RECURSIVE GenerateRecords(_, _)
GenerateRecords(qs, acc) ==
    IF qs = <<>> THEN acc
    ELSE GenerateRecords(Tail(qs), AppendRecord(acc, _generate_qso_adif(Head(qs), acc.stats)))

\* conversion_stats as generate resets it for n records
ResetStats(n) ==
    [total_qsos |-> n, qsos_with_mode |-> 0, qsos_without_mode |-> 0,
     qsos_with_frequency |-> 0, qsos_without_frequency |-> 0]

\* adif_content = self._generate_header(contest_info)
StartContent(header, stats) == [content |-> header.text, tags |-> header.tags, stats |-> stats]

\* the end of generate with total_qsos counting the records written
EndContentCountsEmitted(done) ==
    [content |-> done.content \o "<EOH>\n", tags |-> done.tags,
     stats |-> [done.stats EXCEPT !.total_qsos = done.stats.qsos_with_mode
                                                  + done.stats.qsos_without_mode]]

\* adif_content += "<EOH>\n"; return adif_content
EndContent(done) ==
    [content |-> done.content \o "<EOH>\n", tags |-> done.tags, stats |-> done.stats]

\* ADIFGenerator.generate: the text returned, its tags, and conversion_stats
generate(qs, info, now1, now2) ==
    EndContent(GenerateRecords(qs, StartContent(_generate_header(info, now1, now2),
                                                ResetStats(Len(qs)))))

\* get_conversion_stats returning the generator's own dict
LiveStats(id, stats, fresh) == [id |-> id, val |-> stats]

\* ADIFGenerator.get_conversion_stats: self.conversion_stats.copy(), a new
\* dict (fresh) with the values of the generator's dict (id)
get_conversion_stats(id, stats, fresh) == [id |-> fresh, val |-> stats]

\* d[key] = n on the dict object id, for a name bound to the object held
HolderSet(held, val, id, key, n) == IF held = id THEN [val EXCEPT ![key] = n] ELSE val

\* the lines of seq that hold the marker
RECURSIVE LinesWith(_, _)
LinesWith(seq, marker) ==
    IF seq = <<>> THEN 0
    ELSE (IF Contains(Head(seq), marker) THEN 1 ELSE 0) + LinesWith(Tail(seq), marker)

\* the dict validate_adif builds from header_found, qso_count and lines
ValidationOf(header_found, qso_count, lines) ==
    [valid |-> header_found /\ qso_count > 0, header_found |-> header_found,
     qso_count |-> qso_count, total_lines |-> Len(lines)]

\* the loop of validate_adif over lines
ScanLines(lines) ==
    ValidationOf(LinesWith(lines, "<ADIF_VER:") > 0, LinesWith(lines, "<EOR>"), lines)

\* ADIFGenerator.validate_adif on a str
validate_adif(content) == ScanLines(SplitChar(content, "\n"))

\* ADIFGenerator.format_adif_field: value is [none, text], text being
\* str(value); the f-string has every brace doubled, so it holds no
\* replacement field and the text between the quotes is returned as it is
format_adif_field(field_name, value) ==
    IF value.none \/ value.text = "" THEN ""
    ELSE "<{field_name}:{len(value_str)}>{value_str}"

----------------------------------------------------------------------------
(* Inputs                                                                  *)

\* longest file built from LinePool, and longest QSO list built from QsoPool
MaxLines == 2
MaxQsos == 2

\* lines a Cabrillo file is built from
LineGood     == "QSO: 14250 CW 2025-01-15 0130 W1AW 599 001 G4ABC 599 002"
LineBadDate  == "QSO: 14250 CW 2025-13-40 0130 W1AW 599 001 G4ABC 599 002"
LineCompact  == "QSO: 7025 CW 20250115 0131 W1AW 599 001 DL1ABC 599 003"
LineUs       == "QSO: 21300 PH 01/15/2025 0132 W1AW 59 001 K2XYZ 59 004 1"
LineDotted   == "QSO: 3700 PH 15.01.2025 01:33 W1AW 59 001 F5XYZ 59 005"
LineNoDx     == "QSO: 14250 CW 2025-01-15 0130 W1AW 599 001"
LineLower    == "  qso:  28500 ssb 2025-01-15 2560 w1aw 59 001 g4abc 59"
LineBadFreq  == "QSO: abc RTTY 2025-01-15 0135 W1AW 599 001 G4ABC 599 007"
LineShort    == "QSO: 14250 CW 2025-01-15"

LinePool ==
    {LineGood, LineBadDate, LineCompact, LineUs, LineDotted, LineNoDx, LineLower,
     LineBadFreq, LineShort,
     "# comment", "", "no colon here", "X-UNKNOWN: 1",
     "NAME: José", "LOCATION: ct", "OPERATORS: K1ABC, k1abc K1ABC  W2DEF"}

\* the file of the end-to-end example
ExampleFile ==
    "CONTEST: CQ-WW-CW\nCALLSIGN: W1AW\nOPERATORS: K1ABC, W2DEF\nLOCATION: CT\n"
    \o LineGood \o "\n"

SampleFiles ==
    {ExampleFile,
     "START-OF-LOG: 3.0\nADDRESS: 225 Main St\nADDRESS: \nADDRESS: Newington\n"
        \o "CATEGORY-POWER: HIGH\nCONTEST:\n" \o LineDotted \o "\n" \o LineGood
        \o "\nEND-OF-LOG:\n"}

RECURSIVE SeqsUpTo(_, _)
SeqsUpTo(S, n) ==
    IF n = 0 THEN {<<>>}
    ELSE SeqsUpTo(S, n - 1) \cup {<<x>> \o t : x \in S, t \in {u \in SeqsUpTo(S, n - 1) : Len(u) = n - 1}}

\* the contents parse_file is run on ("" is a file without content)
Files == {Join(ls, "\n") : ls \in SeqsUpTo(LinePool, MaxLines)} \cup SampleFiles

\* records generate is called with directly
QsoGood ==
    [CabrilloQSO EXCEPT !.frequency = "14250", !.mode = "CW", !.date = "2025-01-15",
       !.time = "0130", !.my_call = "W1AW", !.my_rst_sent = "599",
       !.my_exchange_sent = "001", !.dx_call = "G4ABC", !.dx_rst_rcvd = "599",
       !.dx_exchange_rcvd = "002"]
QsoNoCall  == [QsoGood EXCEPT !.dx_call = ""]
QsoBadDate == [QsoGood EXCEPT !.date = "20250115"]
QsoAccent  == [QsoGood EXCEPT !.dx_call = "f5üé", !.frequency = "1296000", !.mode = "",
                              !.time = "1:30", !.transmitter_id = "1"]
QsoBare    == [CabrilloQSO EXCEPT !.dx_call = "K2XYZ", !.frequency = "7.0255",
                              !.mode = "psk31", !.time = "99"]
\* an object that is no CabrilloQSO: reading its dx_call raises
NotAQso    == [not_a_qso |-> TRUE]

QsoPool == {QsoGood, QsoNoCall, QsoBadDate, QsoAccent, QsoBare, NotAQso}
QsoLists == SeqsUpTo(QsoPool, MaxQsos)

\* operators strings
OperatorInputs ==
    {"K1ABC, k1abc K1ABC  W2DEF", "K1ABC", "", " ,; ", ";w2def,K1ABC ; W2DEF,n3xyz;",
     "k1abc\tK1ABC"}

\* contest_info dicts generate is called with directly (<<>> is {} or None)
InfoPool ==
    {<<>>,
     [contest |-> "CQ-WW-CW", callsign |-> "W1AW", operators |-> "K1ABC, W2DEF",
      location |-> "CT"],
     [name |-> "José Müller", email |-> "", club |-> "DARC"],
     [location |-> "Ontario", address |-> <<"225 Main St", "  ", "Newington">>,
      created_by |-> "N1MM Logger+", claimed_score |-> "1200"],
     [category_operator |-> "SINGLE-OP", category_power |-> "HIGH",
      category_transmitter |-> "ONE", category_band |-> "ALL", category_mode |-> "CW"]}
    \cup {[operators |-> o] : o \in OperatorInputs}

\* the two utcnow() reads of one _generate_header call
Clock0 == [Y |-> 2025, m |-> 9, d |-> 17, H |-> 23, M |-> 59, S |-> 59]
Clock1 == [Y |-> 2025, m |-> 9, d |-> 18, H |-> 0, M |-> 0, S |-> 0]
ClockReads == {<<Clock0, Clock0>>, <<Clock0, Clock1>>}

\* a Hz value written at the Hz (k = 0), kHz (k = 3) or MHz (k = 6) scale
Spell(hz, k) ==
    LET z  == ZFill(hz, k + 1)
        fp == RStripZeros(SubSeq(z, Len(z) - k + 1, Len(z)))
    IN  SubSeq(z, 1, Len(z) - k) \o (IF fp = "" THEN "" ELSE "." \o fp)

\* the edges of the band table, one Hz inside and one Hz outside
BandEdges ==
    UNION {{bands[i].min, bands[i].max, NatPred(bands[i].min), NatSucc(bands[i].max)} :
           i \in 1..Len(bands)}

\* frequency strings frequency_to_band is called with
FreqInputs ==
    {Spell(hz, k) : hz \in BandEdges, k \in {0, 3, 6}}
    \cup {"14.0", "14000", "14000000", "999", "1000", "999999", "1000000", "999.999",
          "0999", "", "abc", "1.2.3", ".", "14250 kHz", "7.025MHz"}

\* a record whose frequency float() rejects
QsoBadFreq == [QsoGood EXCEPT !.frequency = "14250 kHz", !.dx_call = "DL1ABC"]

\* a complete record with the frequency string s
QsoAt(s) == [QsoGood EXCEPT !.frequency = s]

\* lists generate is called with to follow the date and frequency blocks
GenLists ==
    {<<QsoAt(s)>> : s \in FreqInputs}
    \cup SeqsUpTo({QsoGood, QsoBadDate, QsoBadFreq, QsoBare}, MaxQsos)

\* pieces of ADIF text, and the texts validate_adif is called with
MaxPieces == 3
AdifPieces ==
    {"<ADIF_VER:5>3.1.4", "<EOR>", "\n", "<CALL:5>G4ABC <QSO_DATE:8>20250115 ", "<EOH>"}
RECURSIVE Concat(_)
Concat(seq) == IF seq = <<>> THEN "" ELSE Head(seq) \o Concat(Tail(seq))
AdifTexts == {Concat(ps) : ps \in SeqsUpTo(AdifPieces, MaxPieces)}

\* lists generate is called with in turn on one generator, and the number
\* of snapshots the caller keeps
MaxSnapshots == 2
StatsLists == {<<>>, <<QsoGood>>, <<QsoBare, QsoBadFreq>>}

\* times and modes of a record generate is called with
GenTimes ==
    {"", ":", "0130", "1:30", "130", "12:34", "12345", "12a4", "99", "9999", "1:2:3",
     " 130"}
GenModes == {"", "CW", "ph", "SSB", "usb", "LSB", "rtty", "FT8", "digi", "Olivia 8"}

\* a complete record with the time t and the mode m
QsoOf(t, m) == [QsoGood EXCEPT !.time = t, !.mode = m]

\* a record with every field
QsoFull == [QsoGood EXCEPT !.transmitter_id = "1"]

\* lists generate is called with to follow the fields of a record
FieldLists ==
    {<<QsoOf(t, m)>> : t \in GenTimes, m \in GenModes}
    \cup SeqsUpTo({QsoFull, QsoNoCall, QsoBare, QsoAccent}, MaxQsos)

\* the fields of a QSO line with a transmitter id and one token more
FieldTokens ==
    <<"14250", "CW", "2025-01-15", "0130", "w1aw", "599", "001", "g4abc", "59", "002",
      "1", "EXTRA">>

\* the QSO line with the first n of them
FieldLine(n) == "QSO:" \o (IF n = 0 THEN "" ELSE " " \o Join(SubSeq(FieldTokens, 1, n), " "))
FieldLines == {FieldLine(n) : n \in 0..Len(FieldTokens)}

\* time fields, and the complete QSO line with the time t
TimeInputs ==
    {"0130", "0000", "2359", "2400", "1260", "12:34", "1:30", "123", "12345", "12a4",
     ":1234", "9999"}
TimeLine(t) == "QSO: 14250 CW 2025-01-15 " \o t \o " W1AW 599 001 G4ABC 599 002"
TimeLines == {TimeLine(t) : t \in TimeInputs}

\* header lines with repeated, unknown and empty keys, and a QSO line
HeaderLines ==
    {"CONTEST: CQ-WW-CW", "contest : ARRL-DX", "CONTEST:", "ADDRESS: 225 Main St",
     "ADDRESS: Newington", "address:", "CREATED-BY: N1MM: v1", "SOAPBOX: hi",
     "no colon here", ": x", "CLUB: DARC", LineGood}

\* files parse_file is called on in turn on one parser ("" is a file that
\* is missing or without content), the number of lists and of dicts the
\* callers keep
MaxReturned == 2
MaxHeld == 2
InstanceFiles ==
    {"", LineGood, LineGood \o "\n" \o LineCompact,
     "ADDRESS: 225 Main St\nNAME: José\n" \o LineGood,
     "ADDRESS: 225 Main St\nADDRESS: Newington\nCONTEST: CQ-WW-CW",
     "CONTEST: ARRL-DX\n" \o LineUs, "# comment\nCLUB: DARC"}

\* field names and values format_adif_field is called with
FieldNames ==
    {"CALL", "QSO_DATE", "TIME_ON", "FREQ", "BAND", "MODE", "RST_SENT", "NAME",
     "APP_C2A_TXID", ""}
Str(text) == [none |-> FALSE, text |-> text]
None == [none |-> TRUE, text |-> "None"]
FieldValues ==
    {None} \cup {Str(t) : t \in {"", "W1AW", "20250115", "0130", "14.25", "20M", "SSB",
                                 "599", "José", "0", "a b"}}

\* the contents parse_file is run on to follow single fields of a line
ParseFiles ==
    {Join(ls, "\n") : ls \in SeqsUpTo(FieldLines, MaxLines) \cup SeqsUpTo(TimeLines, MaxLines)
                              \cup SeqsUpTo(HeaderLines, MaxLines)}

----------------------------------------------------------------------------
(* The state machine                                                       *)

ZeroStats ==
    [total_qsos |-> 0, qsos_with_mode |-> 0, qsos_without_mode |-> 0,
     qsos_with_frequency |-> 0, qsos_without_frequency |-> 0]

\* BandConverter(), CabrilloParser() and ADIFGenerator() constructed
Init ==
    /\ freq_arg = ""
    /\ band_hz = ""
    /\ band_result = ""
    /\ pc = "start"
    /\ file = ""
    /\ qsos = <<>>
    /\ contest_info = <<>>
    /\ gen_qsos = <<>>
    /\ gen_info = <<>>
    /\ conversion_stats = ZeroStats
    /\ adif_content = ""
    /\ adif_tags = <<>>
    /\ stats_id = 0
    /\ snapshots = <<>>
    /\ output_writes = <<>>
    /\ validate_arg = ""
    /\ validation_result = <<>>
    /\ format_arg = <<>>
    /\ format_result = ""
    /\ qsos_id = 0
    /\ returned = <<>>
    /\ address_id = 0
    /\ info_held = <<>>

\* band_converter.frequency_to_band(s); the converter keeps no state between
\* calls, so one call per run is followed
FrequencyToBand(s) ==
    /\ band_result = ""
    /\ freq_arg' = s
    /\ band_hz' = _normalize_frequency(s)
    /\ band_result' = frequency_to_band(s)
    /\ UNCHANGED conv_vars
    /\ UNCHANGED check_vars

\* list objects no name is bound to: the least id not in use
FreshListId ==
    CHOOSE i \in 0..(Len(returned) + 1) \ ({qsos_id} \cup {returned[k].id : k \in 1..Len(returned)}) :
        \A j \in 0..(Len(returned) + 1) \ ({qsos_id} \cup {returned[k].id : k \in 1..Len(returned)}) :
            i <= j
FreshAddressId ==
    CHOOSE i \in 1..(Len(info_held) + 2) \ ({address_id} \cup {info_held[k].address_id : k \in 1..Len(info_held)}) :
        \A j \in 1..(Len(info_held) + 2) \ ({address_id} \cup {info_held[k].address_id : k \in 1..Len(info_held)}) :
            i <= j

\* the state parse_file leaves when it returns or raises r: self.qsos is
\* the list object id, filled in place and handed to the caller by
\* "return self.qsos"; self.contest_info is a new dict, its address list
\* made at the first ADDRESS line
ParsedInto(r, id) ==
    /\ pc' = IF r.raised THEN "parse_failed" ELSE "parsed"
    /\ qsos' = r.qsos
    /\ contest_info' = r.contest_info
    /\ qsos_id' = id
    /\ returned' = IF r.raised THEN ListHolders(returned, id, r.qsos)
                   ELSE Append(ListHolders(returned, id, r.qsos), [id |-> id, val |-> r.qsos])
    /\ address_id' = IF "address" \in DOMAIN r.contest_info THEN FreshAddressId ELSE 0
    /\ UNCHANGED info_held

Parsed(r) == ParsedInto(r, NewList(qsos_id, FreshListId))

\* parser.parse_file(path) on a file with content f
ParseFile(f) ==
    /\ pc = "start"
    /\ Parsed(parse_file(f))
    /\ file' = f
    /\ UNCHANGED <<gen_qsos, gen_info, conversion_stats, adif_content, adif_tags>>
    /\ UNCHANGED <<stats_id, snapshots, output_writes>>
    /\ UNCHANGED band_vars
    /\ UNCHANGED check_vars

\* a dict object no name is bound to: the least id not in use
IdsInUse == {stats_id} \cup {snapshots[k].id : k \in 1..Len(snapshots)}
FreshId == CHOOSE i \in 0..(Len(snapshots) + 1) \ IdsInUse :
               \A j \in 0..(Len(snapshots) + 1) \ IdsInUse : i <= j

\* the state generate(qs, info) leaves when it returns r: conversion_stats
\* is bound to a new dict at the start of the call
Generated(qs, info, r) ==
    /\ gen_qsos' = qs
    /\ gen_info' = info
    /\ conversion_stats' = r.stats
    /\ stats_id' = FreshId
    /\ adif_content' = r.content
    /\ adif_tags' = r.tags

\* convert_file: "if len(qsos) == 0: raise Exception(...)", caught by its
\* "except Exception"
NoQsos ==
    /\ pc = "parsed"
    /\ Len(qsos) = 0
    /\ pc' = "no_qsos"
    /\ UNCHANGED <<file, qsos, contest_info, gen_qsos, gen_info, conversion_stats,
                   adif_content, adif_tags, stats_id, snapshots, output_writes>>
    /\ UNCHANGED band_vars
    /\ UNCHANGED check_vars
    /\ UNCHANGED held_vars

\* convert_file: generator.generate(qsos, contest_info) on the parser's
\* records and metadata
Generate(reads) ==
    /\ pc = "parsed"
    /\ Len(qsos) # 0
    /\ Generated(qsos, contest_info, generate(qsos, contest_info, reads[1], reads[2]))
    /\ pc' = "converted"
    /\ UNCHANGED <<file, qsos, contest_info, snapshots, output_writes>>
    /\ UNCHANGED band_vars
    /\ UNCHANGED check_vars
    /\ UNCHANGED held_vars

\* convert_file: an exception leaves generate (memory, a broken record
\* object) and is caught by "except Exception"; nothing was returned
GenerateRaises ==
    /\ pc = "parsed"
    /\ Len(qsos) # 0
    /\ pc' = "generate_failed"
    /\ UNCHANGED <<file, qsos, contest_info, gen_qsos, gen_info, conversion_stats,
                   adif_content, adif_tags, stats_id, snapshots, output_writes>>
    /\ UNCHANGED band_vars
    /\ UNCHANGED check_vars
    /\ UNCHANGED held_vars

\* the output opened and written before generate is called
WriteOutputBeforeGenerate ==
    /\ pc = "parsed"
    /\ output_writes' = Append(output_writes, adif_content)
    /\ pc' = "saved"
    /\ UNCHANGED <<file, qsos, contest_info, gen_qsos, gen_info, conversion_stats,
                   adif_content, adif_tags, stats_id, snapshots>>
    /\ UNCHANGED band_vars
    /\ UNCHANGED check_vars
    /\ UNCHANGED held_vars

\* convert_file: "with open(output_path, 'w', encoding='utf-8') as f:
\* f.write(adif_content)"
WriteOutput ==
    /\ pc = "converted"
    /\ output_writes' = Append(output_writes, adif_content)
    /\ pc' = "saved"
    /\ UNCHANGED <<file, qsos, contest_info, gen_qsos, gen_info, conversion_stats,
                   adif_content, adif_tags, stats_id, snapshots>>
    /\ UNCHANGED band_vars
    /\ UNCHANGED check_vars
    /\ UNCHANGED held_vars

\* generator.generate(qs, info) on a caller's own records and metadata
GenerateCall(qs, info, reads) ==
    /\ pc = "start"
    /\ Generated(qs, info, generate(qs, info, reads[1], reads[2]))
    /\ pc' = "generated"
    /\ UNCHANGED <<file, qsos, contest_info, snapshots, output_writes>>
    /\ UNCHANGED band_vars
    /\ UNCHANGED check_vars
    /\ UNCHANGED held_vars

Next ==
    \/ \E f \in Files : ParseFile(f)
    \/ NoQsos
    \/ \E reads \in ClockReads : Generate(reads)
    \/ GenerateRaises
    \/ WriteOutput
    \/ \E qs \in QsoLists, info \in InfoPool, reads \in ClockReads : GenerateCall(qs, info, reads)

Spec == Init /\ [][Next]_vars

NextBand == \E s \in FreqInputs : FrequencyToBand(s)

SpecBand == Init /\ [][NextBand]_vars

\* generate called on records that differ in frequency and date
NextGen == \E qs \in GenLists : GenerateCall(qs, <<>>, <<Clock0, Clock0>>)

SpecGen == Init /\ [][NextGen]_vars

\* generate called on records that differ in time, mode and the fields
\* they hold
NextFields == \E qs \in FieldLists : GenerateCall(qs, <<>>, <<Clock0, Clock0>>)

SpecFields == Init /\ [][NextFields]_vars

\* parse_file on files that differ in one field of a line
NextParse == \E f \in ParseFiles : ParseFile(f)

SpecParse == Init /\ [][NextParse]_vars

\* generator.validate_adif(text); the call keeps no state, so one call per
\* run is followed
ValidateAdif(text) ==
    /\ validation_result = <<>>
    /\ validate_arg' = text
    /\ validation_result' = validate_adif(text)
    /\ UNCHANGED <<format_arg, format_result>>
    /\ UNCHANGED conv_vars
    /\ UNCHANGED band_vars

\* validate_adif called on a caller's text
NextValidate == \E text \in AdifTexts : ValidateAdif(text)

SpecValidate == Init /\ [][NextValidate]_vars

\* generator.generate(qs, info) once more on the same generator
GenerateAgain(qs, info, reads) ==
    /\ pc = "generated"
    /\ Generated(qs, info, generate(qs, info, reads[1], reads[2]))
    /\ UNCHANGED <<pc, file, qsos, contest_info, snapshots, output_writes>>
    /\ UNCHANGED band_vars
    /\ UNCHANGED check_vars
    /\ UNCHANGED held_vars

\* snapshot = generator.get_conversion_stats(), kept by the caller
GetConversionStats ==
    /\ pc \in {"start", "generated"}
    /\ Len(snapshots) < MaxSnapshots
    /\ snapshots' = Append(snapshots, get_conversion_stats(stats_id, conversion_stats, FreshId))
    /\ UNCHANGED <<pc, file, qsos, contest_info, gen_qsos, gen_info, conversion_stats,
                   adif_content, adif_tags, stats_id, output_writes>>
    /\ UNCHANGED band_vars
    /\ UNCHANGED check_vars
    /\ UNCHANGED held_vars

\* snapshots[k][key] = n by the caller: every name bound to that dict
\* object sees the new value
ChangeSnapshot(k, key, n) ==
    /\ k \in 1..Len(snapshots)
    /\ snapshots[k].val[key] # n
    /\ snapshots' = [j \in 1..Len(snapshots) |->
                        [snapshots[j] EXCEPT
                            !.val = HolderSet(snapshots[j].id, @, snapshots[k].id, key, n)]]
    /\ conversion_stats' = HolderSet(stats_id, conversion_stats, snapshots[k].id, key, n)
    /\ UNCHANGED <<pc, file, qsos, contest_info, gen_qsos, gen_info,
                   adif_content, adif_tags, stats_id, output_writes>>
    /\ UNCHANGED band_vars
    /\ UNCHANGED check_vars
    /\ UNCHANGED held_vars

\* generate called again and again on one generator, with snapshots taken
\* and changed in between
NextStats ==
    \/ \E qs \in StatsLists : GenerateCall(qs, <<>>, <<Clock0, Clock0>>)
    \/ \E qs \in StatsLists : GenerateAgain(qs, <<>>, <<Clock0, Clock0>>)
    \/ GetConversionStats
    \/ \E k \in 1..MaxSnapshots : ChangeSnapshot(k, "total_qsos", 99)

SpecStats == Init /\ [][NextStats]_vars

\* parser.parse_file(path) called again on the same parser
ParseFileAgain(f) ==
    /\ pc \in {"parsed", "parse_failed"}
    /\ Len(returned) < MaxReturned
    /\ Parsed(parse_file(f))
    /\ file' = f
    /\ UNCHANGED <<gen_qsos, gen_info, conversion_stats, adif_content, adif_tags>>
    /\ UNCHANGED <<stats_id, snapshots, output_writes>>
    /\ UNCHANGED band_vars
    /\ UNCHANGED check_vars

\* info = parser.get_contest_info(), kept by the caller
GetContestInfo ==
    /\ pc \in {"parsed", "parse_failed"}
    /\ Len(info_held) < MaxHeld
    /\ info_held' = Append(info_held, get_contest_info(contest_info, address_id))
    /\ UNCHANGED <<pc, file, qsos, contest_info, gen_qsos, gen_info, conversion_stats,
                   adif_content, adif_tags, stats_id, snapshots, output_writes,
                   qsos_id, returned, address_id>>
    /\ UNCHANGED band_vars
    /\ UNCHANGED check_vars

\* the address list object id holds list from now on: every dict whose
\* 'address' key is bound to it shows that, the parser's own dict too
AddressSet(id, list) ==
    /\ info_held' = AddressHolders(info_held, id, list)
    /\ contest_info' = IF address_id = id THEN DictSet(contest_info, "address", list)
                       ELSE contest_info
    /\ UNCHANGED <<pc, file, qsos, gen_qsos, gen_info, conversion_stats,
                   adif_content, adif_tags, stats_id, snapshots, output_writes,
                   qsos_id, returned, address_id>>
    /\ UNCHANGED band_vars
    /\ UNCHANGED check_vars

\* info['address'].append(v) by the caller (once for each v)
AppendAddress(k, v) ==
    /\ k \in 1..Len(info_held)
    /\ info_held[k].address_id # 0
    /\ \A n \in 1..Len(info_held[k].val.address) : info_held[k].val.address[n] # v
    /\ AddressSet(info_held[k].address_id, Append(info_held[k].val.address, v))

\* info['address'].clear() by the caller
ClearAddress(k) ==
    /\ k \in 1..Len(info_held)
    /\ info_held[k].address_id # 0
    /\ info_held[k].val.address # <<>>
    /\ AddressSet(info_held[k].address_id, <<>>)

\* info[key] = v by the caller, for a key other than 'address'
SetKey(k, key, v) ==
    /\ k \in 1..Len(info_held)
    /\ DictGet(info_held[k].val, key, "") # v
    /\ info_held' = [info_held EXCEPT ![k].val = DictSet(@, key, v)]
    /\ UNCHANGED <<pc, file, qsos, contest_info, gen_qsos, gen_info, conversion_stats,
                   adif_content, adif_tags, stats_id, snapshots, output_writes,
                   qsos_id, returned, address_id>>
    /\ UNCHANGED band_vars
    /\ UNCHANGED check_vars

\* one parser called again and again, its callers keeping the lists it
\* returned
NextInstance ==
    \/ \E f \in InstanceFiles : ParseFile(f)
    \/ \E f \in InstanceFiles : ParseFileAgain(f)

SpecInstance == Init /\ [][NextInstance]_vars

\* one parse_file call, then callers that keep the dicts get_contest_info
\* returned and change them
NextInfo ==
    \/ \E f \in InstanceFiles : ParseFile(f)
    \/ GetContestInfo
    \/ \E k \in 1..MaxHeld : AppendAddress(k, "changed")
    \/ \E k \in 1..MaxHeld : ClearAddress(k)
    \/ \E k \in 1..MaxHeld, key \in {"name", "club"} : SetKey(k, key, "changed")

SpecInfo == Init /\ [][NextInfo]_vars

\* generator.format_adif_field(field_name, value); the call keeps no state,
\* so one call per run is followed
FormatAdifField(field_name, value) ==
    /\ format_arg = <<>>
    /\ format_arg' = <<field_name, value>>
    /\ format_result' = format_adif_field(field_name, value)
    /\ UNCHANGED <<validate_arg, validation_result>>
    /\ UNCHANGED conv_vars
    /\ UNCHANGED band_vars

NextFormat == \E n \in FieldNames, v \in FieldValues : FormatAdifField(n, v)

SpecFormat == Init /\ [][NextFormat]_vars

----------------------------------------------------------------------------
(* Properties                                                              *)

\* generate has returned
Done == pc \in {"converted", "saved", "generated"}

\* parse_file has returned
ParseDone == pc \in {"parsed", "no_qsos", "converted", "generate_failed", "saved"}

\* frequency_to_band has returned
Called == band_result # ""

\* where the markers start in the text generate returned
EohAt == Occurrences(adif_content, "<EOH>")
EorAt == Occurrences(adif_content, "<EOR>")

\* the tags generate wrote under a name
TagIndexes(name) == {i \in 1..Len(adif_tags) : adif_tags[i].name = name}

\* names only the header writes
HeaderOnlyNames ==
    {"ADIF_VER", "PROGRAMID", "CREATED_TIMESTAMP", "CONTEST_ID", "CATEGORY_OPERATOR",
     "CATEGORY_POWER", "CATEGORY_TRANSMITTER", "CATEGORY_BAND", "CATEGORY_MODE",
     "CLAIMED_SCORE", "NAME", "EMAIL", "APP_C2A_CLUB", "APP_C2A_LOCATION", "MY_STATE",
     "ADDRESS", "APP_C2A_CREATED_BY", "OPERATOR", "OPERATORS"}

HeaderTagAt == UNION {Occurrences(adif_content, "<" \o n \o ":") : n \in HeaderOnlyNames}

\* C1: the document generate returns has exactly one <EOH>; it closes the
\* header (it follows the header tags and the blank line); every <EOR> comes
\* after it; and nothing follows the last record's <EOR> terminator.
C1_EohClosesHeader ==
    Done =>
        /\ Cardinality(EohAt) = 1
        /\ \A e \in EohAt :
             /\ \A t \in HeaderTagAt : t < e
             /\ SubSeq(adif_content, e - 2, e - 1) = "\n\n"
             /\ \A r \in EorAt : e < r
        /\ EorAt # {} =>
             SubSeq(adif_content, Len(adif_content) - 5, Len(adif_content)) = "<EOR>\n"

\* C1, what the code does: with a record written, the one <EOH> comes after
\* every <EOR> and ends the document
C1_EohAfterRecords ==
    /\ Done
    /\ EorAt # {}
    /\ Cardinality(EohAt) = 1
    /\ \A e \in EohAt : \A r \in EorAt : r < e
    /\ SubSeq(adif_content, Len(adif_content) - 5, Len(adif_content)) = "<EOH>\n"

\* C2: every tag <NAME:LEN>VALUE generate writes, in the preamble, the
\* metadata fields and the records, has LEN equal to the UTF-8 byte length
\* of VALUE.
C2_LenIsByteLength ==
    Done => \A i \in 1..Len(adif_tags) : adif_tags[i].len = Utf8Len(adif_tags[i].value)

\* C2, what the code does: PROGRAMID is written with 20 over a value of 18
\* bytes, and a call sign with two accented letters with its count of
\* characters, two short of its bytes
C2_LenMismatch ==
    /\ Done
    /\ \E i \in TagIndexes("PROGRAMID") :
         adif_tags[i].len = 20 /\ Utf8Len(adif_tags[i].value) = 18
    /\ \E i \in TagIndexes("CALL") :
         adif_tags[i].len = 4 /\ Utf8Len(adif_tags[i].value) = 6

\* the document holds the header tags and the record the end-to-end example
\* lists, CONTEST_ID written as contest_tag
ExampleOutput(contest_tag) ==
    /\ Contains(adif_content, contest_tag \o "\n")
    /\ Contains(adif_content, "<OPERATOR:5>K1ABC\n")
    /\ Contains(adif_content, "<OPERATORS:11>K1ABC,W2DEF\n")
    /\ Contains(adif_content, "<APP_C2A_LOCATION:2>CT\n")
    /\ Contains(adif_content, "<MY_STATE:2>CT\n")
    /\ Contains(adif_content,
         "\n<CALL:5>G4ABC <QSO_DATE:8>20250115 <TIME_ON:4>0130 <FREQ:5>14.25 "
         \o "<BAND:3>20M <MODE:2>CW <RST_SENT:3>599 <RST_RCVD:3>599 "
         \o "<STX_STRING:3>001 <SRX_STRING:3>002 <STATION_CALLSIGN:4>W1AW <EOR>\n")

\* C3 as stated: parsing the file of the end-to-end example and generating
\* from what was parsed yields a document that holds <CONTEST_ID:9>CQ-WW-CW,
\* the four other header tags and the record the example lists.
C3_EndToEndLength9 ==
    (pc = "converted" /\ file = ExampleFile) => ExampleOutput("<CONTEST_ID:9>CQ-WW-CW")

\* C3 amended: the document holds <CONTEST_ID:8>CQ-WW-CW (the value has eight
\* characters), the four other header tags and the record the example lists.
C3_EndToEnd ==
    (pc = "converted" /\ file = ExampleFile) => ExampleOutput("<CONTEST_ID:8>CQ-WW-CW")

\* C3: the example file was parsed into one record and converted
C3_ExampleConverted ==
    /\ pc = "converted"
    /\ file = ExampleFile
    /\ Len(qsos) = 1
    /\ Cardinality(EorAt) = 1

\* the rows of the band table that lie below 1 MHz: 2200M and 630M
RowsBelowMHz == {i \in 1..Len(bands) : NatLess(bands[i].max, "1000000")}

\* C4 as stated: for every row of the band table, the decimal strings of min
\* and of max resolve to the row's label, those of min-1 and max+1 to UNKNOWN.
C4_EveryRowRoundTrips ==
    Called =>
        \A i \in 1..Len(bands) :
            /\ freq_arg \in {bands[i].min, bands[i].max} => band_result = bands[i].band
            /\ freq_arg \in {NatPred(bands[i].min), NatSucc(bands[i].max)}
                 => band_result = "UNKNOWN"

\* C4 amended: the decimal strings of min and of max resolve to the row's
\* label for the 21 rows from 160M up; for the rows 2200M and 630M they are
\* below 1,000,000, are read as kHz, and resolve to UNKNOWN; min-1 and max+1
\* resolve to UNKNOWN for all 23 rows.
C4_RowsFromMHzRoundTrip ==
    Called =>
        \A i \in 1..Len(bands) :
            /\ freq_arg \in {bands[i].min, bands[i].max}
                 => band_result = IF i \in RowsBelowMHz THEN "UNKNOWN" ELSE bands[i].band
            /\ freq_arg \in {NatPred(bands[i].min), NatSucc(bands[i].max)}
                 => band_result = "UNKNOWN"

\* C4: the upper edge of a row from 160M up was resolved to its label
C4_UpperEdgeResolved ==
    \E i \in (1..Len(bands)) \ RowsBelowMHz :
        freq_arg = bands[i].max /\ band_hz = bands[i].max /\ band_result = bands[i].band

\* a natural number written without sign, point or leading zeros
IsPlainNat(str) == IsDigitStr(str) /\ Nat10(str) = str

\* the unit rule of C5 on a plain number: below 1000 MHz, from 1000 up to
\* but not including 1,000,000 kHz, from 1,000,000 on Hz
UnitRule ==
    IsPlainNat(freq_arg) =>
        band_hz = IF NatLess(freq_arg, "1000") THEN Nat10(freq_arg \o "000000")
                  ELSE IF NatLess(freq_arg, "1000000") THEN freq_arg \o "000"
                  ELSE freq_arg

UnitExamples == freq_arg \in {"14.0", "14000", "14000000"} => band_result = "20M"

\* the frequencies of S, written at the Hz, kHz or MHz scale, resolve to the
\* band their Hz spelling resolves to
SameBandAtEveryScale(S) ==
    \A hz \in S : \A k \in {0, 3, 6} :
        freq_arg = Spell(hz, k) => band_result = frequency_to_band(Spell(hz, 0))

\* C5 as stated: the unit is inferred from the value (below 1000 MHz, below
\* 1,000,000 kHz, else Hz), and hence a frequency written at MHz, kHz and
\* Hz scale resolves to the same band.
C5_SameBandAtAnyFrequency ==
    Called => UnitRule /\ UnitExamples /\ SameBandAtEveryScale(BandEdges)

\* C5 amended: the unit is inferred from the value as stated; a frequency
\* of at least 1 MHz and below 1 GHz written at MHz, kHz and Hz scale
\* resolves to the same band (outside that range the three spellings fall
\* under different units of the rule).
C5_SameBandFromMHzToGHz ==
    Called =>
        /\ UnitRule
        /\ UnitExamples
        /\ SameBandAtEveryScale({hz \in BandEdges :
                NatLeq("1000000", hz) /\ NatLess(hz, "1000000000")})

\* C5: the upper edge of 20M written in MHz was read as MHz
C5_MHzSpellingResolved ==
    freq_arg = "14.35" /\ band_hz = "14350000" /\ band_result = "20M"

\* the separators of the operators string
Separators == Whitespace \cup {",", ";"}

\* where the tokens of str start: the maximal runs free of separators
TokenStarts(str) ==
    {i \in 1..Len(str) :
        Char(str, i) \notin Separators /\ (i = 1 \/ Char(str, i - 1) \in Separators)}

TokenEnd(str, i) ==
    CHOOSE j \in i..Len(str) :
        /\ \A n \in i..j : Char(str, n) \notin Separators
        /\ j = Len(str) \/ Char(str, j + 1) \in Separators

\* the token that starts at i, uppercased
TokenAt(str, i) == Upper(SubSeq(str, i, TokenEnd(str, i)))

\* the starts of the tokens no earlier token equals
FirstSeen(str) ==
    {i \in TokenStarts(str) :
        \A j \in TokenStarts(str) : j < i => TokenAt(str, j) # TokenAt(str, i)}

Least(P) == CHOOSE i \in P : \A j \in P : i <= j

\* the tokens starting at the positions P, in the order of P, joined by ','
RECURSIVE JoinTokens(_, _)
JoinTokens(str, P) ==
    IF P = {} THEN ""
    ELSE IF Cardinality(P) = 1 THEN TokenAt(str, Least(P))
    ELSE TokenAt(str, Least(P)) \o "," \o JoinTokens(str, P \ {Least(P)})

\* C6: for any operators string of the metadata, the header holds OPERATOR
\* with the first token and, only when there is more than one distinct
\* token, OPERATORS with the distinct tokens joined by ',' in first-seen
\* order; the tokens are the runs between commas, semicolons and whitespace,
\* uppercased; with no token neither tag is written.
C6_OperatorRoster ==
    (Done /\ "operators" \in DOMAIN gen_info) =>
        /\ Cardinality(TagIndexes("OPERATOR"))
             = IF FirstSeen(gen_info["operators"]) = {} THEN 0 ELSE 1
        /\ \A i \in TagIndexes("OPERATOR") :
             /\ adif_tags[i].value
                  = TokenAt(gen_info["operators"], Least(FirstSeen(gen_info["operators"])))
             /\ Contains(adif_content, TagText(adif_tags[i]) \o "\n")
        /\ Cardinality(TagIndexes("OPERATORS"))
             = IF Cardinality(FirstSeen(gen_info["operators"])) > 1 THEN 1 ELSE 0
        /\ \A i \in TagIndexes("OPERATORS") :
             /\ adif_tags[i].value
                  = JoinTokens(gen_info["operators"], FirstSeen(gen_info["operators"]))
             /\ Contains(adif_content, TagText(adif_tags[i]) \o "\n")

\* C6: a roster with a repeated operator in another case was written
C6_RepeatedOperatorOnce ==
    /\ Done
    /\ "operators" \in DOMAIN gen_info
    /\ gen_info["operators"] = "K1ABC, k1abc K1ABC  W2DEF"
    /\ \E i \in TagIndexes("OPERATORS") : adif_tags[i].value = "K1ABC,W2DEF"
    /\ \E i \in TagIndexes("OPERATOR") : adif_tags[i].value = "K1ABC"

\* the lines of the parsed file
FileLines == SplitChar(file, "\n")

\* the tokens after the QSO: prefix of a line
QsoTokens(line) == SplitWs(SubSeq(Strip(line), 5, Len(Strip(line))))

\* line, stripped, starts with QSO: in any case
IsQsoLine(line) ==
    LET s == Strip(line) IN Len(s) >= 4 /\ Upper(SubSeq(s, 1, 4)) = "QSO:"

\* the QSO lines of the file that reach to the dx_call position
WithCallsAt(lines) ==
    {i \in 1..Len(lines) :
        /\ IsQsoLine(lines[i])
        /\ Len(QsoTokens(lines[i])) >= 8}
LinesWithCalls == WithCallsAt(FileLines)

\* C7: after parse_file every record of the list has a non-empty my_call
\* and a non-empty dx_call; a QSO line without a token at the dx_call or
\* my_call position is not in the list and not in its length.
C7_CallsMandatory ==
    ParseDone =>
        /\ \A n \in 1..Len(qsos) : qsos[n].my_call # "" /\ qsos[n].dx_call # ""
        /\ \A n \in 1..Len(qsos) : Len(QsoTokens(qsos[n].raw_line)) >= 8
        /\ Len(qsos) = Cardinality(LinesWithCalls)

\* C7: a file with a QSO line without dx_call and a complete one was parsed
\* into one record
C7_LineWithoutDxDropped ==
    /\ ParseDone
    /\ file = LineNoDx \o "\n" \o LineGood
    /\ Len(qsos) = 1
    /\ qsos[1].dx_call = "G4ABC"

\* C8: a QSO line with the invalid date 2025-13-40 stays in the list the
\* parser returns, but generate writes no record and no <EOR> for it.
C8_InvalidDateDropsRecord ==
    (pc = "converted" /\ file = LineBadDate) =>
        /\ Len(qsos) = 1
        /\ EorAt = {}
        /\ TagIndexes("CALL") = {}

\* C8, what the code does: the parser keeps the line with its date cleared,
\* and generate writes its record without QSO_DATE
C8_RecordWithoutDate ==
    /\ pc = "converted"
    /\ file = LineBadDate
    /\ Len(qsos) = 1
    /\ qsos[1].date = ""
    /\ TagIndexes("QSO_DATE") = {}
    /\ Contains(adif_content, "\n<CALL:5>G4ABC <TIME_ON:4>0130 ")
    /\ Cardinality(EorAt) = 1

\* 15 January 2025 in the four accepted forms
LinesJan15 == {LineGood, LineCompact, LineUs, LineDotted}

\* C9: a QSO line with a valid date in any of the four accepted forms goes
\* through parse and generate to a record with QSO_DATE as YYYYMMDD.
C9_DateFormsNormalized ==
    (pc = "converted" /\ file \in LinesJan15) =>
        /\ Cardinality(EorAt) = 1
        /\ \E i \in TagIndexes("QSO_DATE") : adif_tags[i].value = "20250115"
        /\ Contains(adif_content, " <QSO_DATE:8>20250115 ")

\* C9, what the code does: the parser keeps the date YYYYMMDD as received,
\* and generate, which reads YYYY-MM-DD only, writes no record for it
C9_CompactDateDropped ==
    /\ pc = "converted"
    /\ file = LineCompact
    /\ Len(qsos) = 1
    /\ qsos[1].date = "20250115"
    /\ EorAt = {}

\* C10: after generate, total_qsos of the stats is the number of QSOs passed
\* in, whatever number of them was skipped.
C10_TotalCountsPassed == Done => conversion_stats.total_qsos = Len(gen_qsos)

\* C10: two records were passed, one skipped for its date and one for an
\* exception, and none was written
C10_AllSkipped ==
    /\ Done
    /\ gen_qsos = <<QsoBadDate, NotAQso>>
    /\ EorAt = {}
    /\ conversion_stats.total_qsos = 2

\* the tags of the header: those before the first record's CALL
HeaderTagIndexes ==
    {i \in 1..Len(adif_tags) :
        \A j \in TagIndexes("CALL") : i < j}

\* the metadata keys the header copies into one tag each, with the tag
SimpleHeaderKeys ==
    {<<"contest", "CONTEST_ID">>, <<"callsign", "STATION_CALLSIGN">>,
     <<"category_operator", "CATEGORY_OPERATOR">>, <<"category_power", "CATEGORY_POWER">>,
     <<"category_transmitter", "CATEGORY_TRANSMITTER">>, <<"category_band", "CATEGORY_BAND">>,
     <<"category_mode", "CATEGORY_MODE">>, <<"claimed_score", "CLAIMED_SCORE">>,
     <<"name", "NAME">>, <<"email", "EMAIL">>, <<"club", "APP_C2A_CLUB">>,
     <<"location", "APP_C2A_LOCATION">>, <<"created_by", "APP_C2A_CREATED_BY">>}

HeaderHas(name) == \E i \in HeaderTagIndexes : adif_tags[i].name = name

\* C11: the header holds the tag of a metadata key exactly when the key is
\* in the metadata with a non-empty value; a key with an empty value, as the
\* header line 'CONTEST:' leaves it, gives no tag.
C11_TagIffNonEmpty ==
    Done =>
        \A kt \in SimpleHeaderKeys :
            HeaderHas(kt[2]) <=> (kt[1] \in DOMAIN gen_info /\ gen_info[kt[1]] # "")

\* C11, what the code does: the line 'CONTEST:' stores contest as '' and
\* the header is written with a CONTEST_ID tag of length 0
C11_EmptyTagWritten ==
    /\ pc = "converted"
    /\ "contest" \in DOMAIN contest_info
    /\ contest_info["contest"] = ""
    /\ Contains(adif_content, "\n<CONTEST_ID:0>\n")
    /\ \E i \in HeaderTagIndexes : adif_tags[i] = Tag("CONTEST_ID", 0, "")

\* the records of the generate call that hold the CabrilloQSO fields and a
\* dx_call
WithCall == {i \in 1..Len(gen_qsos) : "dx_call" \in DOMAIN gen_qsos[i] /\ gen_qsos[i].dx_call # ""}

\* the date of record i parses as YYYY-MM-DD
DateParses(i) == strptime(gen_qsos[i].date, FmtIso).ok

\* C12: in generate, a record whose date does not parse as YYYY-MM-DD gives
\* no fields and no <EOR>; a record whose frequency does not parse is written
\* with <EOR> and its other fields, without FREQ and BAND; the records after
\* either are still processed.
C12_DateGateAndFrequency ==
    Done =>
        /\ Cardinality(EorAt) = Cardinality({i \in WithCall : DateParses(i)})
        /\ Cardinality(TagIndexes("CALL")) = Cardinality({i \in WithCall : DateParses(i)})
        /\ Cardinality(TagIndexes("FREQ"))
             = Cardinality({i \in WithCall : DateParses(i) /\ HasFrequency(gen_qsos[i].frequency)})
        /\ Cardinality(TagIndexes("BAND")) <= Cardinality(TagIndexes("FREQ"))

\* C12, what the code does: a record with the date '' passes the date
\* gate and is written, the record after it too
C12_EmptyDateWritten ==
    /\ Done
    /\ gen_qsos = <<QsoBare, QsoBadFreq>>
    /\ Cardinality(EorAt) = 2
    /\ TagIndexes("QSO_DATE") = {j \in 1..Len(adif_tags) : adif_tags[j].value = "20250115"}
    /\ Contains(adif_content, "\n<CALL:5>K2XYZ <TIME_ON:4>0099 <FREQ:6>7.0255 <BAND:3>40M <MODE:5>PSK31 <EOR>\n")
    /\ Contains(adif_content, "\n<CALL:6>DL1ABC <QSO_DATE:8>20250115 <TIME_ON:4>0130 <MODE:2>CW ")
    /\ TagIndexes("FREQ") # {} /\ Cardinality(TagIndexes("FREQ")) = 1

\* the members of a set of numbers in ascending order
RECURSIVE Ascending(_)
Ascending(P) == IF P = {} THEN <<>> ELSE <<Least(P)>> \o Ascending(P \ {Least(P)})

\* the record parse_file returns for a file holding the one line
RecordAlone(line) == parse_file(line).qsos

\* the list holds, in order, the records the lines at the positions at give
\* each alone
RecordsInOrder(lines, at) ==
    /\ Len(qsos) = Len(at)
    /\ \A k \in 1..Len(at) :
          /\ qsos[k].raw_line = Strip(lines[at[k]])
          /\ <<qsos[k]>> = RecordAlone(lines[at[k]])

\* C13: parse_file on a file with content never stops at a line: the list it
\* returns (pc = "parsed") is, in file order, the records of the well-formed
\* QSO lines, each the record the line gives alone, whatever malformed,
\* blank, comment or unknown header lines stand before, between or after
\* them; it raises only when no content can be read.
C13_OnlyWellFormedLinesCount ==
    /\ pc = "parse_failed" => file = ""
    /\ ParseDone => file # ""
    /\ pc = "parsed" => RecordsInOrder(FileLines, Ascending(LinesWithCalls))

\* C13: a line without ':' before a complete QSO line was passed over and
\* the QSO line after it parsed
C13_MalformedLineSkipped ==
    /\ ParseDone
    /\ file = "no colon here\n" \o LineGood
    /\ Len(qsos) = 1
    /\ qsos[1].raw_line = LineGood
    /\ contest_info = <<>>

\* token k of the fields toks of a line, "" beyond the available count
Field(toks, k) == IF Len(toks) >= k THEN toks[k] ELSE ""

\* the record holds the fields toks by position: mode, reports and
\* exchanges as written, the calls uppercased, frequency, date and time as
\* written or cleared, the 11th token as transmitter_id
Positional(r, toks) ==
    /\ r.frequency \in {Field(toks, 1), ""}
    /\ r.mode = Field(toks, 2)
    /\ r.date \in {Field(toks, 3), ""}
    /\ r.time \in {Field(toks, 4), ""}
    /\ r.my_call = Upper(Field(toks, 5))
    /\ r.my_rst_sent = Field(toks, 6)
    /\ r.my_exchange_sent = Field(toks, 7)
    /\ r.dx_call = Upper(Field(toks, 8))
    /\ r.dx_rst_rcvd = Field(toks, 9)
    /\ r.dx_exchange_rcvd = Field(toks, 10)
    /\ r.transmitter_id = Field(toks, 11)

\* the QSO lines of the file
QsoLinesAt(lines) == {i \in 1..Len(lines) : IsQsoLine(lines[i])}
QsoLines == QsoLinesAt(FileLines)

\* a QSO line with the fields toks: dropped below 6 fields, read by position
\* from 6 on
ReadByPosition(line, toks) ==
    /\ Len(toks) < 6 => _parse_qso_line(line) = <<>>
    /\ Len(toks) >= 6 => Positional(QsoOfParts(line, toks), toks)

\* the record kept for a line with the fields toks
KeptByPosition(r, toks) == Positional(r, toks) /\ Len(toks) >= 8

\* every QSO line of lines is read by position, and the list holds the
\* records of the lines at the positions at
FieldsByPosition(lines, at) ==
    /\ \A i \in QsoLinesAt(lines) : ReadByPosition(Strip(lines[i]), QsoTokens(lines[i]))
    /\ Len(qsos) = Len(at)
    /\ \A k \in 1..Len(at) : KeptByPosition(qsos[k], QsoTokens(lines[at[k]]))

\* C18: a QSO line with fewer than 6 fields after 'QSO:' is dropped; a line
\* with 6 to 9 fields is read by position with every field beyond those it
\* has set to ""; an 11th field becomes transmitter_id.  (A line read with
\* fewer than 8 fields has no dx_call and is then discarded for that.)
C18_FieldsByPosition ==
    ParseDone => FieldsByPosition(FileLines, Ascending(LinesWithCalls))

\* C18: a line with 9 fields and one with 11 were parsed into two records
C18_NineAndElevenFields ==
    /\ ParseDone
    /\ file = FieldLine(9) \o "\n" \o FieldLine(11)
    /\ Len(qsos) = 2
    /\ qsos[1].dx_call = "G4ABC"
    /\ qsos[1].dx_rst_rcvd = "59"
    /\ qsos[1].dx_exchange_rcvd = ""
    /\ qsos[1].transmitter_id = ""
    /\ qsos[2].dx_exchange_rcvd = "002"
    /\ qsos[2].transmitter_id = "1"

\* a time with its ':' removed is four digits, hour 0..23 and minute 0..59
ClockOk(c) ==
    /\ Len(c) = 4
    /\ \A i \in 1..4 : Char(c, i) \in Digits
    /\ 10 * DigitVal(Char(c, 1)) + DigitVal(Char(c, 2)) <= 23
    /\ 10 * DigitVal(Char(c, 3)) + DigitVal(Char(c, 4)) <= 59

\* the time t as written when it is valid, cleared when not
TimeKept(t) == IF ClockOk(RemoveChar(t, ":")) THEN t ELSE ""

\* the list holds a record for each line at the positions at, its time
\* valid as written or cleared
TimesKept(lines, at) ==
    /\ Len(qsos) = Len(at)
    /\ \A k \in 1..Len(qsos) :
          /\ qsos[k].time = "" \/ ClockOk(RemoveChar(qsos[k].time, ":"))
          /\ qsos[k].time = TimeKept(Field(QsoTokens(lines[at[k]]), 4))

\* C20: the time of every record parse_file keeps is empty or, with its ':'
\* removed, four digits with hour 0..23 and minute 0..59; a line whose time
\* fails this keeps its record, with the time cleared.
C20_TimeValidOrCleared ==
    ParseDone => TimesKept(FileLines, Ascending(LinesWithCalls))

\* C20: a line with the time 2400 and one with 12:34 were parsed; the first
\* record lost its time, the second kept it as written
C20_TimeCleared ==
    /\ ParseDone
    /\ file = TimeLine("2400") \o "\n" \o TimeLine("12:34")
    /\ Len(qsos) = 2
    /\ qsos[1].time = ""
    /\ qsos[1].date = "2025-01-15"
    /\ qsos[2].time = "12:34"

\* the lines of the file parse_file hands to _parse_header_line that hold a
\* ':', with the key before the first ':' and the value after it
ColonAt(line) == Least({j \in 1..Len(line) : Char(line, j) = ":"})
KeyOf(line) == Upper(Strip(SubSeq(line, 1, ColonAt(line) - 1)))
ValueOf(line) == Strip(SubSeq(line, ColonAt(line) + 1, Len(line)))
KeysAt(lines) ==
    [i \in {n \in 1..Len(lines) \ QsoLinesAt(lines) :
                /\ ~StartsWith(Strip(lines[n]), "#")
                /\ \E j \in 1..Len(lines[n]) : Char(lines[n], j) = ":"}
       |-> KeyOf(lines[i])]
Greatest(P) == CHOOSE i \in P : \A j \in P : j <= i

\* the 14 recognized keys with the metadata key of each
RecognizedKeys ==
    {<<"CONTEST", "contest">>, <<"CALLSIGN", "callsign">>,
     <<"CATEGORY-OPERATOR", "category_operator">>,
     <<"CATEGORY-TRANSMITTER", "category_transmitter">>,
     <<"CATEGORY-POWER", "category_power">>, <<"CATEGORY-BAND", "category_band">>,
     <<"CATEGORY-MODE", "category_mode">>, <<"CLAIMED-SCORE", "claimed_score">>,
     <<"CLUB", "club">>, <<"LOCATION", "location">>, <<"NAME", "name">>,
     <<"EMAIL", "email">>, <<"OPERATORS", "operators">>, <<"CREATED-BY", "created_by">>}

\* the metadata against the lines, keys[i] being the key of line i
MetadataOf(lines, keys) ==
    /\ DOMAIN contest_info \subseteq {kf[2] : kf \in RecognizedKeys} \cup {"address"}
    /\ \A kf \in RecognizedKeys :
          LET met == {i \in DOMAIN keys : keys[i] = kf[1]} IN
          IF met = {} THEN kf[2] \notin DOMAIN contest_info
          ELSE /\ kf[2] \in DOMAIN contest_info
               /\ contest_info[kf[2]] = ValueOf(lines[Greatest(met)])
    /\ LET at == Ascending({i \in DOMAIN keys : keys[i] = "ADDRESS"}) IN
          IF at = <<>> THEN "address" \notin DOMAIN contest_info
          ELSE /\ "address" \in DOMAIN contest_info
               /\ contest_info["address"] = [k \in 1..Len(at) |-> ValueOf(lines[at[k]])]

\* C19: after parse_file the metadata holds only the 14 recognized keys and
\* 'address'; a line with an unrecognized key or without ':' leaves it as it
\* was; a recognized key met again keeps its last value; the address list
\* holds the values of all ADDRESS lines in file order, one per line.
C19_MetadataKeys ==
    ParseDone =>
        /\ Cardinality(RecognizedKeys) = 14
        /\ MetadataOf(FileLines, KeysAt(FileLines))

\* C19: CONTEST was met twice and the second value kept
C19_RepeatedKeyKeepsLast ==
    /\ ParseDone
    /\ file = "CONTEST: CQ-WW-CW\ncontest : ARRL-DX"
    /\ DOMAIN contest_info = {"contest"}
    /\ contest_info["contest"] = "ARRL-DX"

\* generate was called with one record whose frequency the parser keeps,
\* and wrote it
KeptFrequencyCall ==
    /\ Done
    /\ Len(gen_qsos) = 1
    /\ Cardinality(EorAt) = 1
    /\ gen_qsos[1].frequency # ""
    /\ KeepFrequency(gen_qsos[1].frequency) = gen_qsos[1].frequency

\* the FREQ value v in MHz is the Hz value hz, which the resolver cuts to
\* whole Hz and the display rounds to whole Hz
SameHz(shown, hz) == hz # "None" /\ (shown = hz \/ shown = NatSucc(hz))
SameFrequency(v, hz) == SameHz(FloatScaleInt(float(v), 6), hz)

\* C17: for every frequency string the parser keeps, the FREQ value the
\* generator writes, in MHz, times 1,000,000 is the Hz value the Band
\* Resolver normalizes the same string to, also at 1000 and at 1,000,000.
C17_FreqIsResolverHz ==
    KeptFrequencyCall =>
        /\ Cardinality(TagIndexes("FREQ")) = 1
        /\ \A i \in TagIndexes("FREQ") :
              SameFrequency(adif_tags[i].value, _normalize_frequency(gen_qsos[1].frequency))

\* C17, what the code does: the frequency '1000000' is written as FREQ 1000
\* (MHz) while the Band Resolver takes it as 1,000,000 Hz
C17_BoundaryRead1000MHz ==
    /\ KeptFrequencyCall
    /\ gen_qsos[1].frequency = "1000000"
    /\ _normalize_frequency("1000000") = "1000000"
    /\ \E i \in TagIndexes("FREQ") : adif_tags[i] = Tag("FREQ", 4, "1000")
    /\ TagIndexes("BAND") = {}

\* convert_file ended in its exception handler
ConvertFailed == pc \in {"parse_failed", "no_qsos", "generate_failed"}

\* a step that writes to the output path is taken after parse_file and
\* generate have returned, on records of the file, and writes what generate
\* returned; a step into the exception handler has written nothing
WriteStep ==
    /\ output_writes' # output_writes =>
          /\ pc = "converted"
          /\ Len(qsos) > 0
          /\ gen_qsos = qsos
          /\ gen_info = contest_info
          /\ adif_content # ""
          /\ output_writes' = <<adif_content>>
    /\ pc' \in {"parse_failed", "no_qsos", "generate_failed"} => output_writes' = <<>>

\* C14: in convert_file the output file is written only after parse_file and
\* generate have both completed; when the input cannot be parsed, the parser
\* returns zero QSOs, or generation raises, nothing is written to the output
\* path.
C14_WriteOnlyAfterBoth ==
    /\ [][WriteStep]_vars
    /\ [](ConvertFailed => output_writes = <<>>)

\* C14: a file with one QSO line was parsed, generated and written
C14_OutputSaved ==
    /\ pc = "saved"
    /\ file = LineGood
    /\ Len(qsos) = 1
    /\ Cardinality(EorAt) = 1
    /\ output_writes = <<adif_content>>

\* validate_adif has returned
Validated == validation_result # <<>>

\* the lines of the text: one more than its newlines
NewlinesIn(text) == Cardinality({i \in 1..Len(text) : Char(text, i) = "\n"})

\* C16: validate_adif(text) reports header_found exactly when the text holds
\* '<ADIF_VER:', qso_count as the number of '<EOR>' in the text, valid
\* exactly when header_found and qso_count >= 1, and total_lines as the
\* number of newline-separated lines.
C16_CountsOccurrences ==
    Validated =>
        /\ validation_result.header_found <=> Contains(validate_arg, "<ADIF_VER:")
        /\ validation_result.qso_count = Cardinality(Occurrences(validate_arg, "<EOR>"))
        /\ validation_result.valid <=>
              (validation_result.header_found /\ validation_result.qso_count >= 1)
        /\ validation_result.total_lines = NewlinesIn(validate_arg) + 1

\* C16, what the code does: two <EOR> on one line are counted once
C16_TwoRecordsOneLine ==
    /\ Validated
    /\ validate_arg = "<ADIF_VER:5>3.1.4<EOR><EOR>"
    /\ validation_result.qso_count = 1
    /\ validation_result.valid
    /\ validation_result.total_lines = 1

\* the counters as the document of the last generate call alone gives them
StatsOfLastCall ==
    [total_qsos |-> Len(gen_qsos),
     qsos_with_mode |-> Cardinality(TagIndexes("MODE")),
     qsos_without_mode |-> Cardinality(EorAt) - Cardinality(TagIndexes("MODE")),
     qsos_with_frequency |-> Cardinality(TagIndexes("FREQ")),
     qsos_without_frequency |-> Cardinality(EorAt) - Cardinality(TagIndexes("FREQ"))]

\* the snapshots held before the step whose values the step changed
ChangedSnapshots == {k \in 1..Len(snapshots) : snapshots'[k].val # snapshots[k].val}

\* a step leaves the snapshots held; a snapshot taken holds the counters of
\* the last call; a generate call (which binds conversion_stats to a new
\* dict) changes no snapshot; a change to one snapshot changes no other
\* snapshot and not the generator's counters
SnapshotStep ==
    /\ Len(snapshots') >= Len(snapshots)
    /\ Len(snapshots') > Len(snapshots) =>
          /\ snapshots'[Len(snapshots')].val = conversion_stats
          /\ ChangedSnapshots = {}
    /\ stats_id' # stats_id => ChangedSnapshots = {}
    /\ Cardinality(ChangedSnapshots) <= 1
    /\ ChangedSnapshots # {} => conversion_stats' = conversion_stats

\* C15: after any sequence of generate calls on one generator,
\* get_conversion_stats gives the counters of the most recent call only (they
\* restart from zero at each call); a snapshot taken earlier is changed
\* neither by a later generate call nor by a change made to another snapshot.
C15_StatsOfLastCallOnly ==
    /\ [](pc = "generated" => conversion_stats = StatsOfLastCall)
    /\ [][SnapshotStep]_vars

\* C15: a snapshot was taken after a call with two records, generate was
\* called again with one record and a second snapshot taken and changed by
\* the caller; the first snapshot still holds the first call's counters
C15_EarlierSnapshotKept ==
    /\ pc = "generated"
    /\ gen_qsos = <<QsoGood>>
    /\ conversion_stats = [ResetStats(1) EXCEPT !.qsos_with_mode = 1, !.qsos_with_frequency = 1]
    /\ Len(snapshots) = 2
    /\ snapshots[1].val = [ResetStats(2) EXCEPT !.qsos_with_mode = 2, !.qsos_with_frequency = 1,
                                                 !.qsos_without_frequency = 1]
    /\ snapshots[2].val = [conversion_stats EXCEPT !.total_qsos = 99]

\* s left-padded with zeros to four characters
ZeroPad4(s) == IF Len(s) >= 4 THEN s ELSE SubSeq("0000", 1, 4 - Len(s)) \o s

\* the time of the record with ':' removed and padded
PaddedTime(q) == ZeroPad4(RemoveChar(q.time, ":"))

FourDigits(s) == Len(s) = 4 /\ \A i \in 1..4 : Char(s, i) \in Digits

\* generate was called with one record that has a call and a date
OneRecord == pc = "generated" /\ Len(gen_qsos) = 1 /\ gen_qsos[1].dx_call # ""

\* the record is written with TIME_ON of length 4 and the padded time
TimeOnWritten(q) ==
    /\ Cardinality(TagIndexes("TIME_ON")) = 1
    /\ \A i \in TagIndexes("TIME_ON") :
          /\ adif_tags[i] = Tag("TIME_ON", 4, PaddedTime(q))
          /\ Contains(adif_content, " <TIME_ON:4>" \o PaddedTime(q) \o " ")

\* the record is written without TIME_ON
TimeOnOmitted ==
    /\ TagIndexes("TIME_ON") = {}
    /\ ~Contains(adif_content, "<TIME_ON:")

\* C21 as stated: for every record, TIME_ON is written with length 4 and the
\* time without ':' padded to 4 characters iff that result is 4 digits, and
\* omitted otherwise; the record is written either way.
C21_TimeOnIffFourDigits ==
    OneRecord =>
        /\ Cardinality(EorAt) = 1
        /\ IF FourDigits(PaddedTime(gen_qsos[1]))
           THEN TimeOnWritten(gen_qsos[1]) ELSE TimeOnOmitted

\* C21 amended: for a record with a non-empty time, TIME_ON is written with
\* length 4 and the time without ':' padded to 4 characters iff that result
\* is 4 digits; for a record with an empty time, or a result that is not 4
\* digits, TIME_ON is omitted; the record is written either way.
C21_TimeOnOfNonEmptyTime ==
    OneRecord =>
        /\ Cardinality(EorAt) = 1
        /\ IF gen_qsos[1].time # "" /\ FourDigits(PaddedTime(gen_qsos[1]))
           THEN TimeOnWritten(gen_qsos[1]) ELSE TimeOnOmitted

\* C21: a record with the time 1:30 was written with TIME_ON 0130, and the
\* mode of the record after it
C21_ShortTimePadded ==
    /\ OneRecord
    /\ gen_qsos[1] = QsoOf("1:30", "CW")
    /\ Contains(adif_content, "<QSO_DATE:8>20250115 <TIME_ON:4>0130 <FREQ:")

\* the names the mode table gives SSB for; every other name it lists it
\* gives back
SsbNames == {"PH", "SSB", "USB", "LSB"}

\* the MODE value of the claim for the uppercased mode up
ModeValue(up) == IF up \in SsbNames THEN "SSB" ELSE up

\* C22: a record with a non-empty mode is written with one MODE tag whose
\* value is SSB for PH, SSB, USB and LSB in any case and the uppercased mode
\* otherwise, and counts in qsos_with_mode; a record with an empty mode is
\* written without MODE and counts in qsos_without_mode.
C22_ModeMappedOrUppercased ==
    OneRecord =>
        LET m == gen_qsos[1].mode IN
        /\ Cardinality(EorAt) = 1
        /\ conversion_stats.qsos_with_mode = IF m # "" THEN 1 ELSE 0
        /\ conversion_stats.qsos_without_mode = IF m # "" THEN 0 ELSE 1
        /\ Cardinality(TagIndexes("MODE")) = IF m # "" THEN 1 ELSE 0
        /\ m = "" => ~Contains(adif_content, "<MODE:")
        /\ \A i \in TagIndexes("MODE") :
              /\ adif_tags[i] = Tag("MODE", Len(ModeValue(Upper(m))), ModeValue(Upper(m)))
              /\ Contains(adif_content, " " \o TagText(adif_tags[i]) \o " ")

\* C22: a record with the mode ph was written with MODE SSB
C22_PhWrittenAsSsb ==
    /\ OneRecord
    /\ gen_qsos[1] = QsoOf("0130", "ph")
    /\ Contains(adif_content, " <MODE:3>SSB <RST_SENT:3>599 ")
    /\ conversion_stats.qsos_with_mode = 1

\* the field names of a record in the order of the claim
NameOrder ==
    <<"CALL", "QSO_DATE", "TIME_ON", "FREQ", "BAND", "MODE", "RST_SENT", "RST_RCVD",
      "STX_STRING", "SRX_STRING", "STATION_CALLSIGN", "APP_C2A_TXID">>

\* where the tag of the k-th name starts in line
NameAt(line, k) == Occurrences(line, "<" \o NameOrder[k] \o ":")

\* the records of qs with a call sign, in order
RECURSIVE WithCallSign(_)
WithCallSign(qs) ==
    IF qs = <<>> THEN <<>>
    ELSE (IF Head(qs).dx_call # "" THEN <<Head(qs)>> ELSE <<>>) \o WithCallSign(Tail(qs))

\* line is the record of q: it starts with the CALL tag of the uppercased
\* dx_call, ends with " <EOR>", holds each name at most once and in the
\* order of the claim, only these names, and one space before every tag
\* but the first
RecordLine(line, q) ==
    /\ StartsWith(line, "<CALL:" \o IntStr(Len(q.dx_call)) \o ">" \o Upper(q.dx_call) \o " ")
    /\ Len(line) >= 6 /\ SubSeq(line, Len(line) - 5, Len(line)) = " <EOR>"
    /\ \A k \in 1..Len(NameOrder) : Cardinality(NameAt(line, k)) <= 1
    /\ \A j, k \in 1..Len(NameOrder) :
          j < k => \A a \in NameAt(line, j), b \in NameAt(line, k) : a < b
    /\ Cardinality(Occurrences(line, "<"))
          = 1 + Cardinality(UNION {NameAt(line, k) : k \in 1..Len(NameOrder)})
    /\ \A i \in Occurrences(line, "<") :
          i > 1 => Char(line, i - 1) = " " /\ Char(line, i - 2) # " "

\* text is header, then one line for each record of kept in order, then
\* the line <EOH>
RecordLinesOf(text, header, kept) ==
    LET body == SplitChar(SubSeq(text, Len(header) + 1, Len(text)), "\n") IN
    /\ StartsWith(text, header)
    /\ Len(body) = Len(kept) + 2
    /\ body[Len(kept) + 1] = "<EOH>"
    /\ body[Len(kept) + 2] = ""
    /\ \A k \in 1..Len(kept) : RecordLine(body[k], kept[k])

\* C23: the text generate returns holds, after the header, one line for
\* each record with a non-empty dx_call, in order, and nothing for a record
\* with an empty dx_call; each line starts with the CALL tag of the
\* uppercased dx_call, lists its fields in the order CALL, QSO_DATE, TIME_ON,
\* FREQ, BAND, MODE, RST_SENT, RST_RCVD, STX_STRING, SRX_STRING,
\* STATION_CALLSIGN, APP_C2A_TXID with one space between them, and ends with
\* <EOR>.
C23_FieldsInFixedOrder ==
    pc = "generated" =>
        RecordLinesOf(adif_content, _generate_header(<<>>, Clock0, Clock0).text,
                      WithCallSign(gen_qsos))

\* C23: of a record without dx_call and a record with all twelve fields,
\* only the second was written
C23_AllFieldsAfterSkipped ==
    /\ pc = "generated"
    /\ gen_qsos = <<QsoNoCall, QsoFull>>
    /\ Cardinality(EorAt) = 1
    /\ \A k \in 1..Len(NameOrder) : Cardinality(NameAt(adif_content, k)) = 1

\* how often the character c stands in s
CountChar(s, c) == Cardinality({i \in 1..Len(s) : Char(s, i) = c})

\* s has no digit, or more than one '.'
NotANumber(s) ==
    \/ \A i \in 1..Len(s) : Char(s, i) \notin Digits
    \/ CountChar(s, ".") > 1

\* the ranges of the table that hold hz
RangesHolding(hz) ==
    {i \in 1..Len(bands) : NatLeq(bands[i].min, hz) /\ NatLeq(hz, bands[i].max)}

\* C25: frequency_to_band returns a label or UNKNOWN for every string and
\* never an exception: UNKNOWN for an empty string, a string without digits
\* or with more than one '.', and for a Hz value no range holds; otherwise
\* the label of the one range that holds the normalized Hz value.
C25_UnknownOrTheOneRange ==
    Called =>
        /\ band_result \in {"UNKNOWN"} \cup {bands[i].band : i \in 1..Len(bands)}
        /\ NotANumber(freq_arg) => band_result = "UNKNOWN" /\ band_hz = "None"
        /\ ~NotANumber(freq_arg) =>
              /\ band_hz # "None"
              /\ Cardinality(RangesHolding(band_hz)) <= 1
              /\ RangesHolding(band_hz) = {} => band_result = "UNKNOWN"
              /\ \A i \in RangesHolding(band_hz) : band_result = bands[i].band

\* C25: the string 1.2.3 was turned down without an exception
C25_TwoPointsUnknown ==
    /\ freq_arg = "1.2.3"
    /\ band_hz = "None"
    /\ band_result = "UNKNOWN"

\* the raw lines of the records of the list
RawLines == {qsos[k].raw_line : k \in 1..Len(qsos)}

\* of the QSO lines of lines, those with 8 fields or more are the lines of
\* the records of the list, one record each; a line with 6 or 7 fields is
\* read with an empty dx_call and is not among them
EightFieldsRetained(lines) ==
    LET at == QsoLinesAt(lines) IN
    /\ Len(qsos) = Cardinality({i \in at : Len(QsoTokens(lines[i])) >= 8})
    /\ \A i \in at : Strip(lines[i]) \in RawLines <=> Len(QsoTokens(lines[i])) >= 8
    /\ \A i \in at :
          Len(QsoTokens(lines[i])) \in {6, 7} =>
              QsoOfParts(Strip(lines[i]), QsoTokens(lines[i])).dx_call = ""
    /\ \A line \in RawLines : IsQsoLine(line) /\ Len(QsoTokens(line)) >= 8

\* C28: every record of the list comes from a QSO line with at least 8
\* whitespace-separated fields, and a QSO line is in the list if and only if
\* it has 8 fields or more; a line with 6 or 7 fields has no dx_call and is
\* dropped.
C28_RetainedIffEightFields ==
    pc = "parsed" => EightFieldsRetained(FileLines)

\* C28: of a line with 7 fields and a line with 8 fields, the second was
\* retained
C28_SevenDroppedEightKept ==
    /\ pc = "parsed"
    /\ file = FieldLine(7) \o "\n" \o FieldLine(8)
    /\ Len(qsos) = 1
    /\ qsos[1].raw_line = FieldLine(8)
    /\ qsos[1].dx_call = "G4ABC"

\* C29: whenever convert_file has written the output, the text written
\* holds at least one record ended by <EOR>.
C29_SavedTextHasRecord ==
    pc = "saved" =>
        /\ output_writes # <<>>
        /\ \A k \in 1..Len(output_writes) : Contains(output_writes[k], "<EOR>")

\* C29: a file whose only QSO line carries its date as 20250115 was parsed
\* into one record, generate skipped it, and the text without any record
\* was written
C29_SavedWithoutRecord ==
    /\ pc = "saved"
    /\ file = LineCompact
    /\ Len(qsos) = 1
    /\ qsos[1].date = "20250115"
    /\ output_writes = <<adif_content>>
    /\ ~Contains(adif_content, "<EOR>")
    /\ conversion_stats.total_qsos = 1

\* the records generate was called with that have no call sign, or a date
\* that is not empty and does not parse as YYYY-MM-DD
SkippedRecords ==
    {i \in 1..Len(gen_qsos) : i \notin WithCall \/ (gen_qsos[i].date # "" /\ ~DateParses(i))}

\* C27: after generate, qsos_with_frequency + qsos_without_frequency equals
\* qsos_with_mode + qsos_without_mode; both equal the number of records
\* written with <EOR>, which is total_qsos less the records skipped for a
\* missing call sign or an unparseable date: at most total_qsos, and equal
\* to it exactly when no record was skipped.
C27_CountersAgreeWithRecords ==
    Done =>
        LET by_frequency == conversion_stats.qsos_with_frequency
                            + conversion_stats.qsos_without_frequency
            by_mode == conversion_stats.qsos_with_mode + conversion_stats.qsos_without_mode
        IN  /\ by_frequency = by_mode
            /\ by_mode = Cardinality(EorAt)
            /\ by_mode = conversion_stats.total_qsos - Cardinality(SkippedRecords)
            /\ by_mode <= conversion_stats.total_qsos
            /\ by_mode = conversion_stats.total_qsos <=> SkippedRecords = {}

\* C27: of a record without mode and a record without call sign, one was
\* written and counted once under each heading
C27_OneOfTwoCounted ==
    /\ pc = "generated"
    /\ gen_qsos = <<QsoAccent, QsoNoCall>>
    /\ conversion_stats = [ResetStats(2) EXCEPT !.qsos_without_mode = 1,
                                                !.qsos_with_frequency = 1]
    /\ Cardinality(EorAt) = 1

\* after the call, the parser holds what parse_file gives for the file of
\* this call alone, and nothing after a call that failed
OnlyThisCall ==
    /\ qsos' = parse_file(file').qsos
    /\ contest_info' = parse_file(file').contest_info
    /\ get_qso_count(qsos') = Len(parse_file(file').qsos)
    /\ pc' = "parse_failed" => qsos' = <<>> /\ contest_info' = <<>> /\ get_qso_count(qsos') = 0

\* the lists returned by earlier calls are as they were
EarlierListsKept == \A k \in 1..Len(returned) : returned'[k] = returned[k]

\* C24: after every parse_file call on a parser, failed calls included, the
\* parser's QSO list, metadata and get_qso_count are those of this call
\* alone (empty after a call that failed), and no list returned by an
\* earlier call is changed by the call.
C24_OnlyMostRecentCall == [][OnlyThisCall /\ EarlierListsKept]_vars

\* C24: a call that returned one record, then a call on another file that
\* returned two; the first caller still holds the one record
C24_SecondCallFirstListKept ==
    /\ pc = "parsed"
    /\ Len(returned) = 2
    /\ Len(returned[1].val) = 1
    /\ returned[1].id # qsos_id
    /\ returned[2] = [id |-> qsos_id, val |-> qsos]
    /\ Len(qsos) = 2
    /\ contest_info = <<>>

\* a step of a caller changing a dict it holds
CallerStep == info_held' # info_held /\ Len(info_held') = Len(info_held)

\* C30: whatever a caller changes in a dict get_contest_info returned, its
\* address list included, a later get_contest_info call returns what it
\* would have returned before the change.
C30_SnapshotIndependent ==
    [][CallerStep => get_contest_info(contest_info', address_id').val
                       = get_contest_info(contest_info, address_id).val]_vars

\* C30: the caller appended to the address list of the dict returned, and
\* the parser's metadata holds the line appended
C30_ParserSeesAppend ==
    /\ pc = "parsed"
    /\ file = "ADDRESS: 225 Main St\nNAME: José\n" \o LineGood
    /\ Len(info_held) = 1
    /\ contest_info = [address |-> <<"225 Main St", "changed">>, name |-> "José"]
    /\ info_held[1].val = contest_info

\* C26: format_adif_field(field_name, value) returns '' for a value that
\* is None or empty, and otherwise '<field_name:LEN>value' with the
\* arguments in it and LEN the length of str(value).
C26_TagOfNameAndValue ==
    format_arg # <<>> =>
        format_result
          = IF format_arg[2].none \/ format_arg[2].text = "" THEN ""
            ELSE "<" \o format_arg[1] \o ":" \o IntStr(Len(format_arg[2].text)) \o ">"
                 \o format_arg[2].text

\* C26: format_adif_field('CALL', 'W1AW') returned the text of the source
\* with its braces, not <CALL:4>W1AW
C26_BracesReturned ==
    /\ format_arg = <<"CALL", Str("W1AW")>>
    /\ format_result = "<{field_name}:{len(value_str)}>{value_str}"

====
